-------------------------- MODULE EventClientProofs --------------------------
(***************************************************************************)
(* Theorems about EventClient, for any number of threads, clients, events  *)
(* and slots.                                                              *)
(***************************************************************************)
EXTENDS EventClient, TLAPS, FiniteSetTheorems

-----------------------------------------------------------------------------
(* Types.                                                                  *)

(* The places a thread can be at, spelled out for the provers. *)
LEMMA PcsAre ==
  Pcs = {"idle", "interrupt", "register", "setFlush", "getFlush", "subscribe", "commit",
         "init_check", "init_mark", "init_wipe", "init_lock", "init_scan", "init_store", "init_unlock",
         "close", "close_elem", "close_unlock", "fill_wait", "fill_cond", "fill_woken",
         "fill_get", "fill_process", "fill_ack"}
BY DEF Pcs, ShortOps, InitPcs, ClosePcs, FillPcs

(* The initial state is well typed. *)
LEMMA TypeInit == Init => TypeOK
BY MaxEvcAssumption, PcsAre DEF Init, InitWith, TypeOK, Slots, NoIndex

(* What a turn of waitEVC's loop leaves of the types it touches. *)
LEMMA WaitTurnType ==
  ASSUME TypeOK, NEW t \in Threads, NEW i \in Slots, NEW c \in Clients \cup {NoClient},
         WaitTurn(t, i, c),
         UNCHANGED <<is_evc_array_initialized, sge_evc_mutex, sge_evc, elem_mutex, target,
                     idx, outcome, life, handle, exiting, unacked, uncommitted,
                     masterVars, histVars>>
  PROVE  TypeOK'
<1> USE PcsAre DEF TypeOK, masterVars, histVars
<1>1. CASE state[i] = "STOPPED"
  BY <1>1 DEF WaitTurn, Goto
<1>2. CASE state[i] = "INTERRUPTED"
  BY <1>2 DEF WaitTurn, Goto
<1>3. CASE state[i] = "RUNNING" /\ (c \in exiting \/ ~Triggered(c))
  BY <1>3 DEF WaitTurn, Goto
<1>4. CASE state[i] = "RUNNING" /\ c \notin exiting /\ Triggered(c)
  <2>1. c \in Clients
    BY <1>4, InternalAssumption DEF Triggered
  <2>2. /\ pending' = [pending EXCEPT ![c] = {}]
        /\ elist' = [elist EXCEPT ![t] = pending[c]]
        /\ Goto(t, "fill_process")
        /\ UNCHANGED state
    BY <1>4, <2>1 DEF WaitTurn
  <2> QED BY <2>1, <2>2 DEF Goto
<1> QED BY <1>1, <1>2, <1>3, <1>4

(* A step of a thread keeps the types. *)
LEMMA TypeContinue == ASSUME TypeOK, NEW t \in Threads, Continue(t) PROVE TypeOK'
<1> USE MaxEvcAssumption, PcsAre DEF TypeOK, NoIndex

<1>1. CASE LockRefused(t)
  BY <1>1 DEF LockRefused, ValidIndex, Slots, Locked, Result, Goto, slotVars,
      clientVars, masterVars, histVars
<1>2. CASE InitCheck(t)
  BY <1>2 DEF InitCheck, Goto, slotVars, clientVars, masterVars, histVars
<1>3. CASE InitMark(t)
  BY <1>3 DEF InitMark, Goto, clientVars, masterVars, histVars, Slots
<1>4. CASE InitWipe(t)
  BY <1>4 DEF InitWipe, Slots, Goto, clientVars, masterVars, histVars
<1>5. CASE InitLock(t)
  BY <1>5 DEF InitLock, Goto, clientVars, masterVars, histVars
<1>6. CASE InitStore(t)
  BY <1>6 DEF InitStore, Goto, clientVars, masterVars, histVars
<1>23. CASE InitScan(t)
  BY <1>23 DEF InitScan, Goto, slotVars, clientVars, masterVars, histVars
<1>7. CASE InitReturn(t)
  BY <1>7 DEF InitReturn, ValidIndex, Slots, Return, Goto, Result, masterVars,
      histVars
<1>8. CASE CloseLock(t)
  BY <1>8 DEF CloseLock, Goto, clientVars, masterVars, histVars
<1>9. CASE CloseElem(t)
  BY <1>9 DEF CloseElem, Locked, ValidIndex, Slots, Woken, Result, histVars
<1>10. CASE CloseReturn(t)
  BY <1>10 DEF CloseReturn, Goto, clientVars, masterVars, histVars
<1>11. CASE InterruptNative(t)
  BY <1>11 DEF InterruptNative, Locked, ValidIndex, Slots, Woken, Result, clientVars,
      masterVars, histVars
<1>12. CASE RegisterNative(t)
  BY <1>12 DEF RegisterNative, Locked, ValidIndex, Slots, Return, Goto, Result,
      slotVars, histVars
<1>13. CASE SetFlushNative(t)
  BY <1>13 DEF SetFlushNative, Configure, Locked, ValidIndex, Slots, Return, Goto,
      Result, slotVars, masterVars, histVars
<1>14. CASE SubscribeNative(t)
  BY <1>14 DEF SubscribeNative, Configure, Locked, ValidIndex, Slots, Return, Goto,
      Result, slotVars, masterVars, histVars
<1>15. CASE GetFlushNative(t)
  BY <1>15 DEF GetFlushNative, Locked, ValidIndex, Slots, Return, Goto, Result,
      slotVars, clientVars, masterVars, histVars
<1>16. CASE CommitNative(t)
  BY <1>16 DEF CommitNative, Locked, ValidIndex, Slots, Return, Goto, Result,
      slotVars, masterVars, histVars
<1>17. CASE FillWait(t)
  BY <1>17, WaitTurnType, InternalAssumption DEF FillWait, Locked, ValidIndex
<1>18. CASE FillResume(t)
  BY <1>18, WaitTurnType, InternalAssumption DEF FillResume, Locked, ValidIndex
<1>19. CASE FillGet(t)
  BY <1>19 DEF FillGet, Locked, ValidIndex, Slots, Goto, clientVars, masterVars,
      histVars
<1>20. CASE FillGot(t)
  <2>1. PICK c \in Clients :
          /\ elist' = [elist EXCEPT ![t] = pending[c]]
          /\ pending' = [pending EXCEPT ![c] = {}]
    BY <1>20 DEF FillGot
  <2> QED BY <1>20, <2>1 DEF FillGot, Goto, masterVars, histVars
<1>21. CASE FillProcess(t)
  BY <1>21 DEF FillProcess, Goto, slotVars, clientVars, masterVars
<1>22. CASE FillAck(t)
  BY <1>22 DEF FillAck, Locked, ValidIndex, Slots, Return, Goto, Result, slotVars,
      masterVars, histVars
<1> QED BY <1>1, <1>2, <1>3, <1>4, <1>5, <1>6, <1>7, <1>8, <1>9, <1>10, <1>11, <1>12, <1>13, <1>14, <1>15, <1>16, <1>17, <1>18, <1>19, <1>20, <1>21, <1>22, <1>23 DEF Continue

(* So do the other steps. *)
LEMMA TypeNext == TypeOK /\ [Next]_vars => TypeOK'
<1> SUFFICES ASSUME TypeOK, [Next]_vars PROVE TypeOK'
  OBVIOUS
<1> USE MaxEvcAssumption, PcsAre DEF TypeOK, NoIndex
<1>1. CASE \E t \in Threads : Continue(t)
  BY <1>1, TypeContinue
<1>2. ASSUME NEW t \in Threads, SpuriousWakeup(t) PROVE TypeOK'
  BY <1>2 DEF SpuriousWakeup, Goto, slotVars, clientVars, masterVars, histVars
<1>3. ASSUME NEW t \in Threads, NEW c \in Clients, InitNative(t, c) PROVE TypeOK'
  BY <1>3 DEF InitNative, Enter, Goto, slotVars, masterVars, histVars
<1>4. ASSUME NEW t \in Threads, NEW c \in Clients, InitNativeFails(t, c) PROVE TypeOK'
  BY <1>4 DEF InitNativeFails, slotVars, masterVars, histVars
<1>5. ASSUME NEW t \in Threads, NEW c \in Clients, NEW op \in CallPcs, Call(t, c, op) PROVE TypeOK'
  BY <1>5 DEF Call, Enter, Goto, slotVars, clientVars, masterVars, histVars, CallPcs,
      ShortOps
<1>6. ASSUME NEW c \in Clients, NEW b \in SUBSET Unsent, Update(c, b) PROVE TypeOK'
  BY <1>6 DEF Update, slotVars, callVars, clientVars, Unsent, Slots
<1>7. ASSUME UpdateSkip PROVE TypeOK'
  BY <1>7 DEF UpdateSkip, Slots, UpdateDone, slotVars, callVars, clientVars
<1>8. ASSUME UpdateSignal PROVE TypeOK'
  <2>1. Woken(mSlot) \in [Threads -> Pcs]
    BY DEF Woken
  <2>2. pc' \in [Threads -> Pcs]
    BY <1>8, <2>1 DEF UpdateSignal
  <2>3. /\ pending' \in [Clients -> SUBSET Events]
        /\ exiting' \subseteq Clients /\ unacked' \subseteq Clients
        /\ uncommitted' \subseteq Clients
    BY <1>8 DEF UpdateSignal
  <2>4. mClient' \in Clients \cup {NoClient} /\ mSlot' \in Slots /\ mBatch' \subseteq Events
    BY <1>8 DEF UpdateSignal, UpdateDone, Slots
  <2> QED BY <1>8, <2>2, <2>3, <2>4 DEF UpdateSignal, slotVars, histVars
<1>9. ASSUME NEW c \in Clients, NEW b \in SUBSET Unsent, RemoteReport(c, b) PROVE TypeOK'
  BY <1>9 DEF RemoteReport, slotVars, callVars, masterVars, Unsent
<1>10. CASE UNCHANGED vars
  BY <1>10 DEF vars, slotVars, callVars, clientVars, masterVars, histVars
<1> QED
  BY <1>1, <1>2, <1>3, <1>4, <1>5, <1>6, <1>7, <1>8, <1>9, <1>10
     DEF Next, Start, Master

(* Every variable keeps its type. *)
THEOREM TypeCorrect == Spec => []TypeOK
BY TypeInit, TypeNext, PTL DEF Spec

-----------------------------------------------------------------------------
(* The inductive invariant.                                                *)

(* It holds when nothing has been created yet. *)
LEMMA IInvInit == Init => IInv
<1> SUFFICES ASSUME Init PROVE IInv
  OBVIOUS
<1>1. TypeOK
  BY TypeInit
<1> QED
  BY <1>1, NoClientAssumption
     DEF Init, InitWith, IInv, ArrayReady, MutexesHeld, InitCalls, IndexCalls, HandlesGiven,
         OpenClientOwnsSlot, SlotsNotLeaked, RefusedMeansClosed, NoLostWakeup,
         WokenNotAtNull, GlobalPcs, IndexPcs, LockPcs, ShortOps, FillPcs, InitPcs

(* A native that ends by unlocking its slot, having left the slots, the    *)
(* lives of the clients and what a waiter looks at as they were.           *)
LEMMA ReturnKeeps ==
  ASSUME IInv, TypeOK', NEW t \in Threads, NEW o \in {"ok", "error"},
         pc[t] \in ShortOps \cup {"fill_ack"}, Return(t, o),
         UNCHANGED <<slotVars, life, handle, pending, exiting>>
  PROVE  IInv'
<1> USE DEF TypeOK, IInv, Return, Goto, Result, slotVars,
            GlobalPcs, IndexPcs, LockPcs, ShortOps, FillPcs, InitPcs
<1>1. ArrayReady'
  BY DEF ArrayReady
<1>2. MutexesHeld'
  BY DEF MutexesHeld, Slots
<1>3. InitCalls'
  BY DEF InitCalls, NoIndex, Slots
<1>4. IndexCalls'
  BY DEF IndexCalls, Slots
<1>5. HandlesGiven'
  BY DEF HandlesGiven, NoIndex
<1>6. OpenClientOwnsSlot'
  BY DEF OpenClientOwnsSlot, Slots
<1>7. SlotsNotLeaked'
  BY DEF SlotsNotLeaked, Slots
<1>8. RefusedMeansClosed'
  BY DEF RefusedMeansClosed
<1>9. NoLostWakeup'
  BY DEF NoLostWakeup, Triggered
<1>10. WokenNotAtNull'
  BY DEF WokenNotAtNull
<1> QED BY <1>1, <1>2, <1>3, <1>4, <1>5, <1>6, <1>7, <1>8, <1>9, <1>10

(* No client is in two slots. *)
LEMMA SlotsInjective ==
  IInv => \A i, j \in Slots : sge_evc[i] = sge_evc[j] /\ sge_evc[i] # NoClient => i = j
<1> SUFFICES ASSUME IInv, NEW i \in Slots, NEW j \in Slots,
                    sge_evc[i] = sge_evc[j], sge_evc[i] # NoClient
             PROVE  i = j
  OBVIOUS
<1> QED BY DEF IInv, TypeOK, SlotsNotLeaked, InitCalls, InitPcs

(* A turn of waitEVC's loop. *)
LEMMA WaitTurnKeeps ==
  ASSUME IInv, TypeOK', NEW t \in Threads, NEW c \in Clients \cup {NoClient},
         pc[t] \in {"fill_wait", "fill_woken"}, Locked(t, c), WaitTurn(t, idx[t], c),
         UNCHANGED <<is_evc_array_initialized, sge_evc_mutex, sge_evc, elem_mutex, target,
                     idx, outcome, life, handle, exiting>>,
         pc[t] = "fill_wait" => c \in Clients
  PROVE  IInv'
<1> USE NoThreadAssumption, NoClientAssumption, InternalAssumption
    DEF TypeOK, IInv, GlobalPcs, IndexPcs, LockPcs, ShortOps, FillPcs, InitPcs
<1> DEFINE i == idx[t]
<1>1. i \in Slots /\ sge_evc[i] = c
  BY DEF Locked, ValidIndex
<1>2. \A u \in Threads : u # t => pc'[u] = pc[u]
  BY DEF WaitTurn, Goto
<1>3. pc'[t] \in {"fill_process", "fill_cond"}
  BY DEF WaitTurn, Goto
<1>4. pc'[t] = "fill_cond" =>
        /\ c \in Clients \ exiting /\ ~Triggered(c)
        /\ state[i] = "RUNNING" /\ UNCHANGED <<state, pending>>
  BY <1>3 DEF WaitTurn, Goto
<1>5. \A j \in Slots : state'[j] = state[j] \/ (state[j] = "INTERRUPTED" /\ j = i /\ state'[j] = "RUNNING")
  BY <1>1 DEF WaitTurn
<1>6. \A d \in Clients : ~Triggered(d) => ~Triggered(d)'
  BY DEF WaitTurn, Triggered
<1>7. ArrayReady' /\ MutexesHeld' /\ InitCalls' /\ IndexCalls'
  <2>1. ArrayReady' /\ MutexesHeld'
    BY <1>1, <1>2, <1>3 DEF ArrayReady, MutexesHeld
  <2>2. InitCalls'
    BY <1>1, <1>2, <1>3 DEF InitCalls
  <2>3. IndexCalls'
    BY <1>1, <1>2, <1>3 DEF IndexCalls
  <2> QED BY <2>1, <2>2, <2>3
<1>8. HandlesGiven' /\ OpenClientOwnsSlot' /\ RefusedMeansClosed'
  BY DEF HandlesGiven, OpenClientOwnsSlot, RefusedMeansClosed
<1>9. SlotsNotLeaked'
  BY <1>2, <1>3 DEF SlotsNotLeaked
<1>10. NoLostWakeup'
  <2> SUFFICES ASSUME NEW u \in Threads, pc'[u] = "fill_cond"
               PROVE  /\ state'[idx[u]] = "RUNNING"
                      /\ sge_evc[idx[u]] \in Clients \ exiting
                      /\ ~Triggered(sge_evc[idx[u]])'
    BY DEF NoLostWakeup
  <2>1. CASE u = t
    BY <1>1, <1>4, <2>1 DEF Triggered
  <2>2. CASE u # t
    <3>1. idx[u] \in Slots /\ pc[u] = "fill_cond"
      BY <1>2, <2>2 DEF IndexCalls
    <3> QED BY <1>5, <1>6, <3>1 DEF NoLostWakeup
  <2> QED BY <2>1, <2>2
<1>11. WokenNotAtNull'
  BY <1>2, <1>3, <1>5 DEF WokenNotAtNull, IndexCalls
<1> QED BY <1>7, <1>8, <1>9, <1>10, <1>11


(* The steps that continue a native. *)
LEMMA IInvContinue ==
  ASSUME IInv, TypeOK', NEW t \in Threads, Continue(t) PROVE IInv'
<1> USE MaxEvcAssumption, InternalAssumption, NoThreadAssumption, NoClientAssumption
    DEF TypeOK, IInv, GlobalPcs, IndexPcs, LockPcs, ShortOps, FillPcs, InitPcs
<1>1. CASE LockRefused(t)
  <2>1. RefusedMeansClosed'
    <3>1. CASE idx[t] \in Slots
      <4>1. target[t] \in Clients /\ life[target[t]] \notin {"unborn", "created"}
        BY <1>1 DEF LockRefused, IndexCalls
      <4>2. handle[target[t]] \in Slots /\ sge_evc[handle[target[t]]] = NoClient
        BY <1>1, <3>1 DEF LockRefused, IndexCalls, ValidIndex, Locked
      <4>3. life[target[t]] # "open"
        BY <4>1, <4>2 DEF OpenClientOwnsSlot
      <4>4. life[target[t]] \in {"open", "destroyed"}
        <5>1. handle[target[t]] # NoIndex
          BY <4>2 DEF Slots, NoIndex
        <5> QED BY <4>1, <5>1 DEF HandlesGiven
      <4> QED BY <1>1, <4>1, <4>3, <4>4
              DEF LockRefused, Result, clientVars, RefusedMeansClosed
    <3>2. CASE idx[t] \notin Slots
      BY <1>1, <3>2 DEF LockRefused, ValidIndex, Result, clientVars, RefusedMeansClosed
    <3> QED BY <3>1, <3>2
  <2>2. ArrayReady' /\ MutexesHeld' /\ InitCalls' /\ IndexCalls' /\ HandlesGiven' /\
      OpenClientOwnsSlot' /\ SlotsNotLeaked' /\ NoLostWakeup' /\ WokenNotAtNull'
    BY <1>1 DEF LockRefused, ValidIndex, Slots, Locked, Result, NoIndex, Goto,
        slotVars, clientVars, masterVars, histVars, ArrayReady, MutexesHeld,
        InitCalls, IndexCalls, HandlesGiven, OpenClientOwnsSlot, SlotsNotLeaked,
        NoLostWakeup, Triggered, WokenNotAtNull
  <2> QED BY <2>1, <2>2
<1>2. CASE InitCheck(t)
  <2>1. ArrayReady'
    BY <1>2 DEF InitCheck, Goto, slotVars, clientVars, masterVars, histVars,
        ArrayReady
  <2>2. InitCalls'
    BY <1>2 DEF InitCheck, Goto, slotVars, clientVars, masterVars, histVars,
        InitCalls, NoIndex, Slots, MutexesHeld, SlotsNotLeaked
  <2>3. MutexesHeld' /\ IndexCalls' /\ HandlesGiven' /\ OpenClientOwnsSlot' /\
      SlotsNotLeaked' /\ RefusedMeansClosed' /\ NoLostWakeup' /\ WokenNotAtNull'
    BY <1>2 DEF InitCheck, Goto, slotVars, clientVars, masterVars, histVars,
        MutexesHeld, Slots, IndexCalls, HandlesGiven, NoIndex, OpenClientOwnsSlot,
        SlotsNotLeaked, RefusedMeansClosed, NoLostWakeup, Triggered, WokenNotAtNull,
        InitCalls
  <2> QED BY <2>1, <2>2, <2>3
<1>3. CASE InitMark(t)
  BY <1>3 DEF InitMark, ArrayReady
<1>4. CASE InitWipe(t)
  BY <1>4 DEF InitWipe, ArrayReady
<1>5. CASE InitLock(t)
  <2>1. MutexesHeld'
    BY <1>5 DEF InitLock, Goto, clientVars, masterVars, histVars, MutexesHeld, Slots
  <2>2. ArrayReady' /\ InitCalls' /\ IndexCalls' /\ HandlesGiven' /\
      OpenClientOwnsSlot' /\ SlotsNotLeaked' /\ RefusedMeansClosed' /\ NoLostWakeup'
      /\ WokenNotAtNull'
    BY <1>5 DEF InitLock, Goto, clientVars, masterVars, histVars, ArrayReady,
        InitCalls, NoIndex, Slots, IndexCalls, HandlesGiven, OpenClientOwnsSlot,
        SlotsNotLeaked, RefusedMeansClosed, NoLostWakeup, Triggered, WokenNotAtNull,
        MutexesHeld
  <2> QED BY <2>1, <2>2
<1>6. CASE InitStore(t)
  <2>1. /\ target[t] \in Clients /\ life[target[t]] = "created"
        /\ idx[t] \in Slots /\ sge_evc[idx[t]] = NoClient
        /\ \A u \in Threads : u # t => pc[u] \notin GlobalPcs
    BY <1>6 DEF InitStore, InitCalls, MutexesHeld
  <2>2. /\ sge_evc' = [sge_evc EXCEPT ![idx[t]] = target[t]]
        /\ state' = [state EXCEPT ![idx[t]] = "RUNNING"]
        /\ pc' = [pc EXCEPT ![t] = "init_unlock"]
        /\ UNCHANGED <<is_evc_array_initialized, sge_evc_mutex, elem_mutex, target, idx, elist,
                       outcome, life, handle, pending, exiting>>
    BY <1>6 DEF InitStore, Goto, clientVars
  <2>u. \A u \in Threads : u # t => pc'[u] = pc[u]
    BY <2>2
  <2>3. ArrayReady' /\ MutexesHeld'
    <3>1. ArrayReady'
      BY <2>2, <2>u DEF ArrayReady
    <3>2. \A u \in Threads : pc'[u] \in GlobalPcs => sge_evc_mutex' = u
      BY <1>6, <2>2, <2>u DEF InitStore, MutexesHeld
    <3>3. ASSUME NEW u \in Threads, pc'[u] = "fill_get"
          PROVE  idx'[u] \in Slots /\ elem_mutex'[idx'[u]] = u /\ sge_evc'[idx'[u]] \in Clients
      <4>1. pc[u] = "fill_get"
        BY <2>2, <2>u, <3>3
      <4>2. idx[u] \in Slots /\ elem_mutex[idx[u]] = u /\ sge_evc[idx[u]] \in Clients
        BY <4>1 DEF MutexesHeld
      <4> QED BY <2>1, <2>2, <4>2
    <3> QED BY <3>1, <3>2, <3>3 DEF MutexesHeld
  <2>4. InitCalls'
    <3>1. \A u \in Threads : pc'[u] \in InitPcs =>
            pc[u] \in InitPcs /\ target'[u] = target[u] /\ life' = life /\ idx'[u] = idx[u]
      BY <1>6, <2>2, <2>u DEF InitStore
    <3>2. \A u \in Threads : pc'[u] \in {"init_store", "init_unlock"} => u = t
      BY <2>1, <2>u
    <3>3. pc'[t] = "init_unlock" /\ sge_evc'[idx'[t]] = target'[t]
      BY <2>1, <2>2
    <3>4. \A u \in Threads : pc'[u] \in {"init_check", "init_lock", "init_scan"} => pc[u] = pc'[u]
      BY <2>u, <3>3
    <3> QED BY <3>1, <3>2, <3>3, <3>4 DEF InitCalls
  <2>5. OpenClientOwnsSlot'
    BY <2>1, <2>2 DEF OpenClientOwnsSlot
  <2>6. SlotsNotLeaked'
    BY <2>1, <2>2 DEF SlotsNotLeaked
  <2>7. NoLostWakeup' /\ WokenNotAtNull'
    BY <2>1, <2>2 DEF NoLostWakeup, WokenNotAtNull, Triggered, IndexCalls
  <2>8. IndexCalls' /\ HandlesGiven' /\ RefusedMeansClosed'
    BY <2>1, <2>2 DEF IndexCalls, HandlesGiven, RefusedMeansClosed
  <2> QED BY <2>3, <2>4, <2>5, <2>6, <2>7, <2>8
<1>23. CASE InitScan(t)
  <2>1. /\ pc[t] = "init_scan" /\ idx[t] = NoIndex
        /\ \A u \in Threads : u # t => pc[u] \notin GlobalPcs
    BY <1>23 DEF InitScan, InitCalls, MutexesHeld
  <2>2. /\ \A u \in Threads : u # t => pc'[u] = pc[u] /\ idx'[u] = idx[u]
        /\ \/ pc'[t] = "init_store" /\ idx'[t] \in Slots /\ sge_evc[idx'[t]] = NoClient
           \/ pc'[t] = "init_unlock" /\ idx'[t] = NoIndex
        /\ UNCHANGED <<slotVars, target, elist, outcome, clientVars>>
    BY <1>23, <2>1 DEF InitScan, FirstFree, Goto
  <2>3. NoIndex \notin Slots
    BY DEF NoIndex, Slots
  <2>4. ArrayReady' /\ MutexesHeld'
    BY <2>1, <2>2 DEF ArrayReady, MutexesHeld, slotVars
  <2>5. InitCalls'
    BY <2>1, <2>2, <2>3 DEF InitCalls, slotVars, clientVars
  <2>6. IndexCalls' /\ HandlesGiven' /\ OpenClientOwnsSlot' /\ RefusedMeansClosed'
    BY <2>1, <2>2 DEF IndexCalls, HandlesGiven, OpenClientOwnsSlot, RefusedMeansClosed, slotVars,
       clientVars
  <2>7. SlotsNotLeaked'
    BY <2>1, <2>2 DEF SlotsNotLeaked, slotVars, clientVars
  <2>8. NoLostWakeup' /\ WokenNotAtNull'
    BY <2>1, <2>2 DEF NoLostWakeup, WokenNotAtNull, Triggered, slotVars, clientVars
  <2> QED BY <2>4, <2>5, <2>6, <2>7, <2>8
<1>7. CASE InitReturn(t)
  <2>1. InitCalls'
    BY <1>7 DEF InitReturn, ValidIndex, Slots, Return, Goto, Result, NoIndex,
        masterVars, histVars, InitCalls, MutexesHeld, SlotsNotLeaked
  <2>2. IndexCalls'
    BY <1>7 DEF InitReturn, ValidIndex, Slots, Return, Goto, Result, NoIndex,
        masterVars, histVars, IndexCalls, InitCalls, HandlesGiven
  <2>3. HandlesGiven'
    BY <1>7 DEF InitReturn, ValidIndex, Slots, Return, Goto, Result, NoIndex,
        masterVars, histVars, HandlesGiven, InitCalls
  <2>4. OpenClientOwnsSlot'
    BY <1>7 DEF InitReturn, ValidIndex, Slots, Return, Goto, Result, NoIndex,
        masterVars, histVars, OpenClientOwnsSlot, InitCalls, MutexesHeld,
        SlotsNotLeaked
  <2>5. SlotsNotLeaked'
    BY <1>7 DEF InitReturn, ValidIndex, Slots, Return, Goto, Result, NoIndex,
        masterVars, histVars, SlotsNotLeaked, InitCalls, MutexesHeld,
        OpenClientOwnsSlot
  <2>6. ArrayReady' /\ MutexesHeld' /\ RefusedMeansClosed' /\ NoLostWakeup' /\
      WokenNotAtNull'
    BY <1>7 DEF InitReturn, ValidIndex, Slots, Return, Goto, Result, NoIndex,
        masterVars, histVars, ArrayReady, MutexesHeld, RefusedMeansClosed,
        NoLostWakeup, Triggered, WokenNotAtNull, IndexCalls, InitCalls,
        OpenClientOwnsSlot, HandlesGiven
  <2> QED BY <2>1, <2>2, <2>3, <2>4, <2>5, <2>6
<1>8. CASE CloseLock(t)
  <2>1. MutexesHeld'
    BY <1>8 DEF CloseLock, Goto, clientVars, masterVars, histVars, MutexesHeld,
        Slots
  <2>2. ArrayReady' /\ InitCalls' /\ IndexCalls' /\ HandlesGiven' /\
      OpenClientOwnsSlot' /\ SlotsNotLeaked' /\ RefusedMeansClosed' /\ NoLostWakeup'
      /\ WokenNotAtNull'
    BY <1>8 DEF CloseLock, Goto, clientVars, masterVars, histVars, ArrayReady,
        InitCalls, NoIndex, Slots, IndexCalls, HandlesGiven, OpenClientOwnsSlot,
        SlotsNotLeaked, RefusedMeansClosed, NoLostWakeup, Triggered, WokenNotAtNull,
        MutexesHeld
  <2> QED BY <2>1, <2>2
<1>9. CASE CloseElem(t)
  <2>1. MutexesHeld'
    BY <1>9 DEF CloseElem, Locked, ValidIndex, Slots, Woken, Result, NoIndex,
        histVars, MutexesHeld
  <2>2. InitCalls'
    <3>1. PICK c \in Clients :
            sge_evc[idx[t]] = c /\ idx[t] \in Slots /\ life' = [life EXCEPT ![c] = "destroyed"]
      BY <1>9 DEF CloseElem, Locked, ValidIndex
    <3>2. life[c] = "open"
      BY <1>9, <3>1 DEF CloseElem, MutexesHeld, SlotsNotLeaked
    <3>3. \A u \in Threads : pc'[u] \in InitPcs =>
            u # t /\ pc'[u] = pc[u] /\ idx'[u] = idx[u] /\ target'[u] = target[u]
      BY <1>9 DEF CloseElem, Woken, Result
    <3>4. \A u \in Threads : pc[u] \notin {"init_store", "init_unlock"}
      BY <1>9 DEF CloseElem, MutexesHeld
    <3>5. \A u \in Threads : pc'[u] \notin {"init_store", "init_unlock"}
      BY <3>3, <3>4
    <3>6. ASSUME NEW u \in Threads, pc'[u] \in InitPcs
          PROVE  target'[u] \in Clients /\ life'[target'[u]] = "created"
      BY <3>1, <3>2, <3>3, <3>6 DEF InitCalls
    <3> QED BY <3>3, <3>5, <3>6 DEF InitCalls
  <2>3. IndexCalls'
    BY <1>9 DEF CloseElem, Locked, ValidIndex, Slots, Woken, Result, NoIndex,
        histVars, IndexCalls, InitCalls, HandlesGiven
  <2>4. OpenClientOwnsSlot'
    BY <1>9 DEF CloseElem, Locked, ValidIndex, Slots, Woken, Result, NoIndex,
        histVars, OpenClientOwnsSlot, InitCalls, MutexesHeld, SlotsNotLeaked
  <2>5. SlotsNotLeaked'
    BY <1>9 DEF CloseElem, Locked, ValidIndex, Slots, Woken, Result, NoIndex,
        histVars, SlotsNotLeaked, InitCalls, MutexesHeld, OpenClientOwnsSlot
  <2>6. RefusedMeansClosed'
    BY <1>9 DEF CloseElem, Locked, ValidIndex, Slots, Woken, Result, NoIndex,
        histVars, RefusedMeansClosed, IndexCalls, InitCalls, OpenClientOwnsSlot,
        HandlesGiven
  <2>7. NoLostWakeup'
    BY <1>9 DEF CloseElem, Locked, ValidIndex, Slots, Woken, Result, NoIndex,
        histVars, NoLostWakeup, Triggered, IndexCalls, MutexesHeld
  <2>8. WokenNotAtNull'
    BY <1>9 DEF CloseElem, Locked, ValidIndex, Slots, Woken, Result, NoIndex,
        histVars, WokenNotAtNull, IndexCalls, NoLostWakeup, Triggered, InitCalls
  <2>9. ArrayReady' /\ HandlesGiven'
    BY <1>9 DEF CloseElem, Locked, ValidIndex, Slots, Woken, Result, NoIndex,
        histVars, ArrayReady, HandlesGiven, InitCalls
  <2> QED BY <2>1, <2>2, <2>3, <2>4, <2>5, <2>6, <2>7, <2>8, <2>9
<1>10. CASE CloseReturn(t)
  <2>1. MutexesHeld'
    BY <1>10 DEF CloseReturn, Goto, clientVars, masterVars, histVars, MutexesHeld,
        Slots
  <2>2. ArrayReady' /\ InitCalls' /\ IndexCalls' /\ HandlesGiven' /\
      OpenClientOwnsSlot' /\ SlotsNotLeaked' /\ RefusedMeansClosed' /\ NoLostWakeup'
      /\ WokenNotAtNull'
    BY <1>10 DEF CloseReturn, Goto, clientVars, masterVars, histVars, ArrayReady,
        InitCalls, NoIndex, Slots, IndexCalls, HandlesGiven, OpenClientOwnsSlot,
        SlotsNotLeaked, RefusedMeansClosed, NoLostWakeup, Triggered, WokenNotAtNull,
        MutexesHeld
  <2> QED BY <2>1, <2>2
<1>11. CASE InterruptNative(t)
  <2>1. SlotsNotLeaked'
    <3>1. \A u \in Threads : pc[u] = "init_unlock" =>
            pc'[u] = pc[u] /\ idx'[u] = idx[u] /\ target'[u] = target[u]
      BY <1>11 DEF InterruptNative, Woken, Result
    <3> QED BY <1>11, <3>1 DEF InterruptNative, SlotsNotLeaked, clientVars
  <2>2. NoLostWakeup'
    BY <1>11 DEF InterruptNative, Locked, ValidIndex, Slots, Woken, Result, NoIndex,
        clientVars, masterVars, histVars, NoLostWakeup, Triggered, IndexCalls,
        MutexesHeld
  <2>3. WokenNotAtNull'
    BY <1>11 DEF InterruptNative, Locked, ValidIndex, Slots, Woken, Result, NoIndex,
        clientVars, masterVars, histVars, WokenNotAtNull, IndexCalls, NoLostWakeup,
        Triggered, InitCalls
  <2>4. InitCalls'
    <3>1. \A u \in Threads : pc'[u] \in InitPcs =>
            pc'[u] = pc[u] /\ idx'[u] = idx[u] /\ target'[u] = target[u]
      BY <1>11 DEF InterruptNative, Woken, Result
    <3>2. UNCHANGED <<sge_evc, life>>
      BY <1>11 DEF InterruptNative, clientVars
    <3> QED BY <3>1, <3>2 DEF InitCalls
  <2>5. ArrayReady' /\ MutexesHeld' /\ IndexCalls' /\ HandlesGiven' /\
      OpenClientOwnsSlot' /\ RefusedMeansClosed'
    BY <1>11 DEF InterruptNative, Locked, ValidIndex, Slots, Woken, Result, NoIndex,
        clientVars, masterVars, histVars, ArrayReady, MutexesHeld,
        IndexCalls, HandlesGiven, OpenClientOwnsSlot, RefusedMeansClosed,
        SlotsNotLeaked
  <2> QED BY <2>1, <2>2, <2>3, <2>4, <2>5
<1>12. CASE RegisterNative(t)
  BY <1>12, ReturnKeeps DEF RegisterNative, slotVars, histVars, ShortOps
<1>13. CASE SetFlushNative(t)
  BY <1>13, ReturnKeeps DEF SetFlushNative, Configure, ShortOps
<1>14. CASE SubscribeNative(t)
  BY <1>14, ReturnKeeps DEF SubscribeNative, Configure, ShortOps
<1>15. CASE GetFlushNative(t)
  BY <1>15, ReturnKeeps DEF GetFlushNative, clientVars, ShortOps
<1>16. CASE CommitNative(t)
  BY <1>16, ReturnKeeps DEF CommitNative, ShortOps
<1>17. CASE FillWait(t)
  <2>1. PICK c \in Internal : Locked(t, c) /\ WaitTurn(t, idx[t], c)
    BY <1>17 DEF FillWait
  <2> QED BY <1>17, <2>1, WaitTurnKeeps DEF FillWait
<1>18. CASE FillResume(t)
  BY <1>18, WaitTurnKeeps DEF FillResume
<1>19. CASE FillGet(t)
  <2>1. MutexesHeld'
    BY <1>19 DEF FillGet, Locked, ValidIndex, Slots, Goto, clientVars, masterVars,
        histVars, MutexesHeld
  <2>2. ArrayReady' /\ IndexCalls' /\ HandlesGiven' /\ OpenClientOwnsSlot'
        /\ SlotsNotLeaked' /\ RefusedMeansClosed'
    BY <1>19 DEF FillGet, Locked, ValidIndex, Slots, Goto, clientVars, masterVars,
        histVars, ArrayReady, NoIndex, IndexCalls, HandlesGiven,
        OpenClientOwnsSlot, SlotsNotLeaked, RefusedMeansClosed
  <2>3. InitCalls'
    BY <1>19 DEF FillGet, Goto, clientVars, InitCalls
  <2>4. NoLostWakeup' /\ WokenNotAtNull'
    BY <1>19 DEF FillGet, Goto, clientVars, NoLostWakeup, Triggered, WokenNotAtNull
  <2> QED BY <2>1, <2>2, <2>3, <2>4
<1>20. CASE FillGot(t)
  <2>1. MutexesHeld'
    BY <1>20 DEF FillGot, Goto, masterVars, histVars, MutexesHeld, Slots
  <2>2. NoLostWakeup'
    BY <1>20 DEF FillGot, Goto, masterVars, histVars, NoLostWakeup, Triggered,
        IndexCalls, Slots, MutexesHeld
  <2>3. ArrayReady' /\ HandlesGiven' /\ OpenClientOwnsSlot' /\ RefusedMeansClosed'
    BY <1>20 DEF FillGot, Goto, masterVars, histVars, ArrayReady, HandlesGiven, NoIndex,
        Slots, OpenClientOwnsSlot, RefusedMeansClosed
  <2>4. InitCalls'
    BY <1>20 DEF FillGot, Goto, masterVars, histVars, InitCalls, NoIndex, Slots
  <2>5. IndexCalls'
    BY <1>20 DEF FillGot, Goto, masterVars, histVars, IndexCalls, Slots
  <2>6. SlotsNotLeaked'
    BY <1>20 DEF FillGot, Goto, masterVars, histVars, SlotsNotLeaked, Slots
  <2>7. WokenNotAtNull'
    BY <1>20 DEF FillGot, Goto, masterVars, histVars, WokenNotAtNull, IndexCalls, Slots
  <2> QED BY <2>1, <2>2, <2>3, <2>4, <2>5, <2>6, <2>7
<1>21. CASE FillProcess(t)
  <2>1. ArrayReady' /\ MutexesHeld' /\ InitCalls' /\ IndexCalls' /\ HandlesGiven' /\
      OpenClientOwnsSlot' /\ SlotsNotLeaked' /\ RefusedMeansClosed' /\ NoLostWakeup'
      /\ WokenNotAtNull'
    BY <1>21 DEF FillProcess, Goto, slotVars, clientVars, masterVars, ArrayReady,
        MutexesHeld, Slots, InitCalls, NoIndex, IndexCalls, HandlesGiven,
        OpenClientOwnsSlot, SlotsNotLeaked, RefusedMeansClosed, NoLostWakeup,
        Triggered, WokenNotAtNull
  <2> QED BY <2>1
<1>22. CASE FillAck(t)
  BY <1>22, ReturnKeeps DEF FillAck, ShortOps
<1> QED
  BY <1>1, <1>2, <1>3, <1>4, <1>5, <1>6, <1>7, <1>8, <1>9, <1>10, <1>11, <1>12, <1>13,
      <1>14, <1>15, <1>16, <1>17, <1>18, <1>19, <1>20, <1>21, <1>22, <1>23 DEF Continue

(* Every step. *)
LEMMA IInvNext == IInv /\ [Next]_vars => IInv'
<1> SUFFICES ASSUME IInv, [Next]_vars PROVE IInv'
  OBVIOUS
<1> USE MaxEvcAssumption, InternalAssumption, NoThreadAssumption, NoClientAssumption
    DEF TypeOK, IInv, GlobalPcs, IndexPcs, LockPcs, ShortOps, FillPcs, InitPcs
<1>0. TypeOK'
  BY TypeNext
<1>1. CASE \E t \in Threads : Continue(t)
  BY <1>0, <1>1, IInvContinue
<1>2. ASSUME NEW t \in Threads, SpuriousWakeup(t) PROVE IInv'
  <2>1. IndexCalls'
    BY <1>0, <1>2 DEF SpuriousWakeup, Goto, slotVars, clientVars, masterVars,
        histVars, IndexCalls, Slots, InitCalls, NoIndex, HandlesGiven
  <2>2. WokenNotAtNull'
    BY <1>0, <1>2 DEF SpuriousWakeup, Goto, slotVars, clientVars, masterVars,
        histVars, WokenNotAtNull, IndexCalls, Slots, NoLostWakeup, Triggered,
        InitCalls, NoIndex
  <2>3. ArrayReady' /\ MutexesHeld' /\ InitCalls' /\ HandlesGiven' /\
      OpenClientOwnsSlot' /\ SlotsNotLeaked' /\ RefusedMeansClosed' /\ NoLostWakeup'
    BY <1>0, <1>2 DEF SpuriousWakeup, Goto, slotVars, clientVars, masterVars,
        histVars, ArrayReady, MutexesHeld, Slots, InitCalls, NoIndex, HandlesGiven,
        OpenClientOwnsSlot, SlotsNotLeaked, RefusedMeansClosed, NoLostWakeup,
        Triggered, IndexCalls
  <2> QED BY <1>0, <2>1, <2>2, <2>3
<1>3. ASSUME NEW t \in Threads, NEW c \in Clients, InitNative(t, c) PROVE IInv'
  <2>1. InitCalls'
    BY <1>0, <1>3 DEF InitNative, Enter, Goto, NoIndex, slotVars, masterVars,
        histVars, InitCalls, Slots, MutexesHeld, SlotsNotLeaked
  <2>2. IndexCalls'
    BY <1>0, <1>3 DEF InitNative, Enter, Goto, NoIndex, slotVars, masterVars,
        histVars, IndexCalls, Slots, InitCalls, HandlesGiven
  <2>3. SlotsNotLeaked'
    BY <1>0, <1>3 DEF InitNative, Enter, Goto, NoIndex, slotVars, masterVars,
        histVars, SlotsNotLeaked, Slots, InitCalls, MutexesHeld, OpenClientOwnsSlot
  <2>4. ArrayReady' /\ MutexesHeld' /\ HandlesGiven' /\ OpenClientOwnsSlot' /\
      RefusedMeansClosed' /\ NoLostWakeup' /\ WokenNotAtNull'
    BY <1>0, <1>3 DEF InitNative, Enter, Goto, NoIndex, slotVars, masterVars,
        histVars, ArrayReady, MutexesHeld, Slots, HandlesGiven, OpenClientOwnsSlot,
        RefusedMeansClosed, NoLostWakeup, Triggered, WokenNotAtNull, InitCalls,
        SlotsNotLeaked, IndexCalls
  <2> QED BY <1>0, <2>1, <2>2, <2>3, <2>4
<1>4. ASSUME NEW t \in Threads, NEW c \in Clients, InitNativeFails(t, c) PROVE IInv'
  <2>1. HandlesGiven'
    BY <1>0, <1>4 DEF InitNativeFails, slotVars, masterVars, histVars, HandlesGiven,
        NoIndex, InitCalls, Slots
  <2>2. SlotsNotLeaked'
    BY <1>0, <1>4 DEF InitNativeFails, slotVars, masterVars, histVars,
        SlotsNotLeaked, Slots, InitCalls, NoIndex, MutexesHeld, OpenClientOwnsSlot
  <2>3. ArrayReady' /\ MutexesHeld' /\ InitCalls' /\ IndexCalls' /\
      OpenClientOwnsSlot' /\ RefusedMeansClosed' /\ NoLostWakeup' /\ WokenNotAtNull'
    BY <1>0, <1>4 DEF InitNativeFails, slotVars, masterVars, histVars, ArrayReady,
        MutexesHeld, Slots, InitCalls, NoIndex, IndexCalls, OpenClientOwnsSlot,
        RefusedMeansClosed, NoLostWakeup, Triggered, WokenNotAtNull, SlotsNotLeaked,
        HandlesGiven
  <2> QED BY <1>0, <2>1, <2>2, <2>3
<1>5. ASSUME NEW t \in Threads, NEW c \in Clients, NEW op \in CallPcs, Call(t, c, op) PROVE IInv'
  <2>1. IndexCalls'
    BY <1>0, <1>5 DEF Call, Enter, Goto, slotVars, clientVars, masterVars, histVars,
        IndexCalls, Slots, InitCalls, NoIndex, HandlesGiven, CallPcs
  <2>2. ArrayReady' /\ MutexesHeld' /\ InitCalls' /\ HandlesGiven' /\
      OpenClientOwnsSlot' /\ SlotsNotLeaked' /\ RefusedMeansClosed' /\ NoLostWakeup'
      /\ WokenNotAtNull'
    BY <1>0, <1>5 DEF Call, Enter, Goto, slotVars, clientVars, masterVars, histVars,
        ArrayReady, MutexesHeld, Slots, InitCalls, NoIndex, HandlesGiven,
        OpenClientOwnsSlot, SlotsNotLeaked, RefusedMeansClosed, NoLostWakeup,
        Triggered, WokenNotAtNull, IndexCalls, CallPcs
  <2> QED BY <1>0, <2>1, <2>2
<1>6. ASSUME NEW c \in Clients, NEW b \in SUBSET Unsent, Update(c, b) PROVE IInv'
  <2> USE <1>6 DEF Update, slotVars, callVars, clientVars
  <2>1. ArrayReady' /\ HandlesGiven' /\ OpenClientOwnsSlot' /\ RefusedMeansClosed'
    BY DEF ArrayReady, HandlesGiven, NoIndex, OpenClientOwnsSlot, Slots,
        RefusedMeansClosed
  <2>2. MutexesHeld' /\ WokenNotAtNull'
    BY DEF MutexesHeld, WokenNotAtNull, Slots
  <2>3. InitCalls' /\ IndexCalls'
    BY DEF InitCalls, IndexCalls, NoIndex, Slots
  <2>4. SlotsNotLeaked' /\ NoLostWakeup'
    BY DEF SlotsNotLeaked, NoLostWakeup, Triggered, Slots
  <2> QED BY <1>0, <2>1, <2>2, <2>3, <2>4
<1>7. ASSUME UpdateSkip PROVE IInv'
  <2>1. ArrayReady' /\ MutexesHeld' /\ InitCalls' /\ IndexCalls' /\ HandlesGiven' /\
      OpenClientOwnsSlot' /\ SlotsNotLeaked' /\ RefusedMeansClosed' /\ NoLostWakeup'
      /\ WokenNotAtNull'
    BY <1>0, <1>7 DEF UpdateSkip, Slots, UpdateDone, slotVars, callVars, clientVars,
        ArrayReady, MutexesHeld, InitCalls, NoIndex, IndexCalls, HandlesGiven,
        OpenClientOwnsSlot, SlotsNotLeaked, RefusedMeansClosed, NoLostWakeup,
        Triggered, WokenNotAtNull
  <2> QED BY <1>0, <2>1
<1>8. ASSUME UpdateSignal PROVE IInv'
  <2>1. NoLostWakeup'
    <3> SUFFICES ASSUME NEW u \in Threads, pc'[u] = "fill_cond"
                 PROVE  /\ state[idx[u]] = "RUNNING"
                        /\ sge_evc[idx[u]] \in Clients \ exiting'
                        /\ ~Triggered(sge_evc[idx[u]])'
      BY <1>0, <1>8 DEF UpdateSignal, slotVars, NoLostWakeup, Triggered
    <3>1. pc[u] = "fill_cond" /\ idx[u] \in Slots /\ (mBatch # {} => idx[u] # mSlot)
      BY <1>0, <1>8 DEF UpdateSignal, Woken, IndexCalls
    <3>2. mBatch # {} => sge_evc[idx[u]] # mClient
      BY <1>0, <1>8, <3>1, SlotsInjective DEF UpdateSignal
    <3> QED BY <1>0, <1>8, <3>1, <3>2
           DEF UpdateSignal, NoLostWakeup, Triggered, slotVars
  <2>2. WokenNotAtNull'
    BY <1>0, <1>8 DEF UpdateSignal, UpdateDone, Woken, slotVars, histVars,
        WokenNotAtNull, IndexCalls, Slots, NoLostWakeup, Triggered, InitCalls,
        NoIndex
  <2>3. SlotsNotLeaked'
    <3>1. \A u \in Threads : pc[u] = "init_unlock" => pc'[u] = pc[u]
      BY <1>0, <1>8 DEF UpdateSignal, Woken
    <3> QED BY <1>0, <1>8, <3>1 DEF UpdateSignal, SlotsNotLeaked, slotVars
  <2>4. ArrayReady' /\ MutexesHeld' /\ InitCalls' /\ IndexCalls' /\ HandlesGiven' /\
      OpenClientOwnsSlot' /\ RefusedMeansClosed'
    BY <1>0, <1>8 DEF UpdateSignal, UpdateDone, Woken, slotVars, histVars,
        ArrayReady, MutexesHeld, Slots, InitCalls, NoIndex, IndexCalls,
        HandlesGiven, OpenClientOwnsSlot, RefusedMeansClosed, SlotsNotLeaked
  <2> QED BY <1>0, <2>1, <2>2, <2>3, <2>4
<1>9. ASSUME NEW c \in Clients, NEW b \in SUBSET Unsent, RemoteReport(c, b) PROVE IInv'
  <2>1. NoLostWakeup'
    <3>1. \A d \in Clients : Triggered(d)' = Triggered(d)
      BY <1>0, <1>9 DEF RemoteReport, Triggered
    <3> QED BY <1>0, <1>9, <3>1 DEF RemoteReport, slotVars, callVars, NoLostWakeup, IndexCalls
  <2>2. ArrayReady' /\ MutexesHeld' /\ InitCalls' /\ IndexCalls' /\ HandlesGiven' /\
      OpenClientOwnsSlot' /\ SlotsNotLeaked' /\ RefusedMeansClosed' /\ WokenNotAtNull'
    BY <1>0, <1>9 DEF RemoteReport, slotVars, callVars, masterVars, ArrayReady,
        MutexesHeld, Slots, InitCalls, NoIndex, IndexCalls, HandlesGiven,
        OpenClientOwnsSlot, SlotsNotLeaked, RefusedMeansClosed, WokenNotAtNull,
        NoLostWakeup, Triggered
  <2> QED BY <1>0, <2>1, <2>2
<1>10. CASE UNCHANGED vars
  BY <1>0, <1>10 DEF vars, slotVars, callVars, clientVars, masterVars, histVars,
      ArrayReady, MutexesHeld, GlobalPcs, Slots, InitCalls, InitPcs, NoIndex,
      IndexCalls, IndexPcs, LockPcs, ShortOps, FillPcs, HandlesGiven,
      OpenClientOwnsSlot, SlotsNotLeaked, RefusedMeansClosed, NoLostWakeup, Triggered,
      WokenNotAtNull
<1> QED
  BY <1>1, <1>2, <1>3, <1>4, <1>5, <1>6, <1>7, <1>8, <1>9, <1>10 DEF Next, Start, Master

(* The invariant holds of every state of the specification. *)
THEOREM Invariance == Spec => []IInv
BY IInvInit, IInvNext, PTL DEF Spec

-----------------------------------------------------------------------------
(* What the invariant gives.                                               *)

(* An open client is always found at its own index: neither initNative's   *)
(* scan nor another object's close takes its slot away.                    *)
THEOREM OpenClientsKeepTheirSlots == Spec => []OpenClientOwnsSlot
<1>1. IInv => OpenClientOwnsSlot
  BY DEF IInv
<1> QED BY <1>1, Invariance, PTL

(* A native is told "already closed" only if its client is closed.         *)
THEOREM RefusalsAreRight == Spec => []RefusedMeansClosed
<1>1. IInv => RefusedMeansClosed
  BY DEF IInv
<1> QED BY <1>1, Invariance, PTL

(* initNative and closeNative leak no slot.                                *)
THEOREM NoSlotLeaks == Spec => []SlotsNotLeaked
<1>1. IInv => SlotsNotLeaked
  BY DEF IInv
<1> QED BY <1>1, Invariance, PTL

(* waitEVC, interruptNative, closeNative and pygdi_event_update_func       *)
(* together lose no wakeup.                                                *)
THEOREM WakeupsAreNotLost == Spec => []NoLostWakeup
<1>1. IInv => NoLostWakeup
  BY DEF IInv
<1> QED BY <1>1, Invariance, PTL

(* A waiter never goes on in waitEVC's loop with a NULL sge_evc.           *)
THEOREM WaitersMeetNoNull == Spec => []WokenNotAtNull
<1>1. IInv => WokenNotAtNull
  BY DEF IInv
<1> QED BY <1>1, Invariance, PTL

-----------------------------------------------------------------------------
(* A destroyed client is not touched.                                      *)

Untouched(c) ==
  /\ life'[c] = "destroyed"
  /\ pending'[c] = pending[c]
  /\ \A S \in {<<exiting, exiting'>>, <<unacked, unacked'>>,
                <<uncommitted, uncommitted'>>} : c \in S[1] <=> c \in S[2]

(* What is in a slot is not destroyed. *)
LEMMA OccupantsLive ==
  IInv => \A i \in Slots : sge_evc[i] \in Clients => life[sge_evc[i]] # "destroyed"
BY NoClientAssumption DEF IInv, SlotsNotLeaked, InitCalls, InitPcs

(* No step touches a destroyed client. *)
LEMMA UntouchedStep ==
  ASSUME IInv, [Next]_vars, NEW c \in Clients, life[c] = "destroyed" PROVE Untouched(c)
<1> USE InternalAssumption DEF IInv, TypeOK, Untouched
<1>1. CASE \E t \in Threads : Continue(t)
  <2> PICK t \in Threads : Continue(t)
    BY <1>1
  <2>1. CASE LockRefused(t) \/ InitCheck(t) \/ InitMark(t) \/ InitWipe(t)
             \/ InitLock(t) \/ InitScan(t) \/ InitStore(t)
    BY <2>1 DEF LockRefused, InitCheck, InitMark, InitWipe, InitLock, InitScan, InitStore, clientVars
  <2>2. CASE InitReturn(t)
    BY <2>2 DEF InitReturn, InitCalls, InitPcs
  <2>3. CASE CloseLock(t) \/ CloseReturn(t) \/ InterruptNative(t) \/ GetFlushNative(t)
             \/ FillGet(t) \/ FillProcess(t)
    BY <2>3 DEF CloseLock, CloseReturn, InterruptNative, GetFlushNative, FillGet,
                FillProcess, clientVars
  <2>4. CASE CloseElem(t)
    BY <2>4 DEF CloseElem
  <2>5. CASE RegisterNative(t) \/ SetFlushNative(t) \/ SubscribeNative(t) \/ CommitNative(t)
    BY <2>5, OccupantsLive
       DEF RegisterNative, SetFlushNative, SubscribeNative, CommitNative, Configure,
           Locked, ValidIndex
  <2>6. CASE FillWait(t) \/ FillResume(t)
    BY <2>6, OccupantsLive
       DEF FillWait, FillResume, Locked, ValidIndex, WaitTurn, Triggered
  <2>7. CASE FillGot(t)
    BY <2>7, OccupantsLive DEF FillGot, MutexesHeld
  <2>8. CASE FillAck(t)
    BY <2>8, OccupantsLive DEF FillAck, Locked, ValidIndex
  <2> QED BY <2>1, <2>2, <2>3, <2>4, <2>5, <2>6, <2>7, <2>8 DEF Continue
<1>2. CASE \E t \in Threads : Start(t) \/ SpuriousWakeup(t)
  BY <1>2 DEF Start, InitNative, InitNativeFails, Call, SpuriousWakeup, clientVars
<1>3. CASE Master
  <2>1. ASSUME NEW d \in Clients, NEW b \in SUBSET Unsent, Update(d, b) PROVE Untouched(c)
    BY <2>1 DEF Update, clientVars
  <2>2. CASE UpdateSkip
    BY <2>2 DEF UpdateSkip, clientVars
  <2>3. CASE UpdateSignal
    BY <2>3, OccupantsLive DEF UpdateSignal
  <2>4. ASSUME NEW d \in Clients, NEW b \in SUBSET Unsent, RemoteReport(d, b)
        PROVE  Untouched(c)
    BY <2>4 DEF RemoteReport
  <2> QED BY <1>3, <2>1, <2>2, <2>3, <2>4 DEF Master
<1>4. CASE UNCHANGED vars
  BY <1>4 DEF vars, clientVars
<1> QED BY <1>1, <1>2, <1>3, <1>4 DEF Next

(* Neither a native nor the delivery thread touches a client after its     *)
(* sge_evc_class_destroy.                                                  *)
THEOREM NoUseAfterDestroy == Spec => DestroyedUntouched
<1>1. IInv /\ [Next]_vars =>
        [\A c \in Clients : life[c] = "destroyed" => Untouched(c)]_vars
  BY UntouchedStep
<1> QED BY <1>1, Invariance, PTL DEF Spec, DestroyedUntouched, Untouched

-----------------------------------------------------------------------------
(* The global mutex.                                                       *)

(* Only initNative and closeNative take it, and the step that leaves them  *)
(* gives it back.                                                          *)
LEMMA GlobalMutexStep ==
  ASSUME TypeOK, GlobalMutexHeldInside, [Next]_vars PROVE GlobalMutexHeldInside'
<1> USE NoThreadAssumption DEF TypeOK, GlobalMutexHeldInside, GlobalPcs
<1>1. CASE \E t \in Threads : Continue(t)
  <2> PICK t \in Threads : Continue(t)
    BY <1>1
  <2>1. CASE LockRefused(t)
    BY <2>1 DEF LockRefused, Goto, slotVars, LockPcs, ShortOps
  <2>2. CASE InitCheck(t) \/ InitMark(t) \/ InitWipe(t)
    BY <2>2 DEF InitCheck, InitMark, InitWipe, Goto, slotVars
  <2>3. CASE InitLock(t) \/ InitScan(t) \/ InitStore(t) \/ InitReturn(t)
    <3>1. CASE InitLock(t)
      BY <3>1 DEF InitLock, Goto
    <3>2. CASE InitScan(t)
      BY <3>2 DEF InitScan, Goto, slotVars
    <3>3. CASE InitStore(t)
      BY <3>3 DEF InitStore, Goto
    <3>4. CASE InitReturn(t)
      BY <3>4 DEF InitReturn, Goto, Return
    <3> QED BY <2>3, <3>1, <3>2, <3>3, <3>4
  <2>4. CASE CloseLock(t) \/ CloseReturn(t)
    BY <2>4 DEF CloseLock, CloseReturn, Goto
  <2>5. CASE CloseElem(t)
    BY <2>5 DEF CloseElem, Woken
  <2>6. CASE InterruptNative(t)
    BY <2>6 DEF InterruptNative, Woken
  <2>7. CASE RegisterNative(t) \/ SetFlushNative(t) \/ SubscribeNative(t)
             \/ GetFlushNative(t) \/ CommitNative(t)
    BY <2>7 DEF RegisterNative, SetFlushNative, SubscribeNative, GetFlushNative,
                CommitNative, Configure, Return, Goto, slotVars
  <2>8. CASE FillWait(t) \/ FillResume(t)
    BY <2>8 DEF FillWait, FillResume, WaitTurn, Goto
  <2>9. CASE FillGet(t) \/ FillGot(t) \/ FillProcess(t) \/ FillAck(t)
    BY <2>9 DEF FillGet, FillGot, FillProcess, FillAck, Return, Goto, slotVars
  <2> QED BY <2>1, <2>2, <2>3, <2>4, <2>5, <2>6, <2>7, <2>8, <2>9 DEF Continue
<1>2. CASE \E t \in Threads : Start(t) \/ SpuriousWakeup(t)
  BY <1>2 DEF Start, InitNative, InitNativeFails, Call, Enter, SpuriousWakeup, Goto,
              slotVars
<1>3. CASE Master
  <2>1. CASE UpdateSignal
    BY <2>1 DEF UpdateSignal, Woken, slotVars
  <2>2. CASE ~UpdateSignal
    BY <1>3, <2>2 DEF Master, Update, UpdateSkip, RemoteReport, slotVars, callVars
  <2> QED BY <2>1, <2>2
<1>4. CASE UNCHANGED vars
  BY <1>4 DEF vars, slotVars, callVars
<1> QED BY <1>1, <1>2, <1>3, <1>4 DEF Next

(* No native returns, on whatever path, with the global mutex held.        *)
THEOREM GlobalMutexIsGivenBack == Spec => []GlobalMutexHeldInside
<1>1. Init => GlobalMutexHeldInside
  BY NoThreadAssumption DEF Init, InitWith, GlobalMutexHeldInside
<1>2. TypeOK /\ GlobalMutexHeldInside /\ [Next]_vars => GlobalMutexHeldInside'
  BY GlobalMutexStep
<1> QED BY <1>1, <1>2, TypeCorrect, PTL DEF Spec
-----------------------------------------------------------------------------
(* Events.  What a step does with them is one of a few moves.              *)

historyOfEvents == <<sent, delivered, dropped, missed>>

(* Nothing moves, and nobody with events in hand gets a new target. *)
Quiet ==
  /\ UNCHANGED <<historyOfEvents, pending, mBatch, elist>>
  /\ mClient' = mClient \/ mBatch = {}
  /\ \A u \in Threads : elist[u] # {} => target'[u] = target[u]
  /\ \A u \in Threads : pc'[u] # "fill_process" => elist[u] = {}

(* A thread takes what its client has pending. *)
Taken(t, c) ==
  /\ pc'[t] = "fill_process" /\ elist[t] = {} /\ UNCHANGED target
  /\ target[t] \in Clients /\ (target[t] = c \/ life[target[t]] = "destroyed")
  /\ elist' = [elist EXCEPT ![t] = pending[c]]
  /\ pending' = [pending EXCEPT ![c] = {}]
  /\ UNCHANGED <<historyOfEvents, mBatch, mClient>>
  /\ \A u \in Threads : pc'[u] # "fill_process" => pc[u] # "fill_process"

(* The delivery thread finds the client, or does not. *)
Posted ==
  /\ mClient \in Clients /\ mBatch' = {}
  /\ pending' = [pending EXCEPT ![mClient] = @ \cup mBatch]
  /\ UNCHANGED <<historyOfEvents, elist, target>>
  /\ \A u \in Threads : pc'[u] # "fill_process" => pc[u] # "fill_process"
Missed ==
  /\ mClient \in Clients /\ life[mClient] = "destroyed" /\ mBatch' = {}
  /\ missed' = missed \cup mBatch
  /\ UNCHANGED <<sent, delivered, dropped, pending, elist, target, pc>>

(* The destroyed stay destroyed. *)
LEMMA DestroyedStay ==
  ASSUME IInv, [Next]_vars, NEW c \in Clients, life[c] = "destroyed"
  PROVE  life'[c] = "destroyed"
BY UntouchedStep DEF Untouched

(* A client found from slot n on stays there or is destroyed. *)
LEMMA FoundStays ==
  ASSUME IInv, [Next]_vars, NEW c \in Clients, NEW n \in Int, Found(c, n)
  PROVE  Found(c, n)'
<1> USE NoClientAssumption DEF IInv, TypeOK, Found
<1>1. CASE life[c] = "destroyed"
  BY <1>1, DestroyedStay
<1>2. CASE life[c] # "destroyed"
  <2>1. PICK i \in Slots : i >= n /\ sge_evc[i] = c
    BY <1>2
  <2>2. SUFFICES sge_evc'[i] = c \/ life'[c] = "destroyed"
    BY <2>1
  <2>3. CASE \E t \in Threads : Continue(t)
    <3> PICK t \in Threads : Continue(t)
      BY <2>3
    <3>1. CASE InitMark(t) \/ InitWipe(t)
      BY <3>1 DEF InitMark, InitWipe, ArrayReady
    <3>2. CASE InitStore(t)
      BY <2>1, <3>2 DEF InitStore, InitCalls
    <3>3. CASE CloseElem(t)
      BY <2>1, <3>3 DEF CloseElem, Locked, ValidIndex
    <3>4. CASE LockRefused(t) \/ InitCheck(t) \/ InitLock(t) \/ InitScan(t) \/ InitReturn(t)
               \/ CloseLock(t)
               \/ CloseReturn(t) \/ InterruptNative(t) \/ RegisterNative(t)
               \/ SetFlushNative(t) \/ SubscribeNative(t) \/ GetFlushNative(t)
               \/ CommitNative(t) \/ FillWait(t) \/ FillResume(t) \/ FillGet(t)
               \/ FillGot(t) \/ FillProcess(t) \/ FillAck(t)
      BY <2>1, <3>4 DEF LockRefused, InitCheck, InitLock, InitScan, InitReturn, CloseLock,
         CloseReturn, InterruptNative, RegisterNative, SetFlushNative, SubscribeNative, Configure,
         GetFlushNative, CommitNative, FillWait, FillResume, FillGet, FillGot, FillProcess,
         FillAck, slotVars
    <3> QED BY <3>1, <3>2, <3>3, <3>4 DEF Continue
  <2>4. CASE ~ \E t \in Threads : Continue(t)
    BY <2>1, <2>4 DEF Next, Start, Master, InitNative, InitNativeFails, Call, SpuriousWakeup,
       Update, UpdateSkip, UpdateSignal, RemoteReport, vars, slotVars
  <2> QED BY <2>3, <2>4
<1> QED BY <1>1, <1>2

(* The event master only comes to know a client that is in the table. *)
LEMMA RegistryStep ==
  ASSUME IInv, [Next]_vars, NEW c \in Clients, c \in registry' \ registry
  PROVE  Found(c, 0)
<1> USE DEF IInv, TypeOK
<1>1. CASE \E t \in Threads : RegisterNative(t)
  BY <1>1 DEF RegisterNative, Locked, ValidIndex, Found, Slots
<1>2. CASE \E t \in Threads : CloseElem(t)
  BY <1>2 DEF CloseElem
<1>3. CASE ~ \E t \in Threads : RegisterNative(t) \/ CloseElem(t)
  BY <1>3 DEF Next, Start, Continue, Master, LockRefused, InitCheck, InitMark, InitWipe,
     InitLock, InitScan, InitStore, InitReturn, CloseLock, CloseReturn, InterruptNative,
     SetFlushNative, SubscribeNative, Configure, GetFlushNative, CommitNative, FillWait,
     FillResume, FillGet, FillGot, FillProcess, FillAck, InitNative, InitNativeFails, Call,
     SpuriousWakeup, Update, UpdateSkip, UpdateSignal, RemoteReport, vars, masterVars
<1> QED BY <1>1, <1>2, <1>3

(* The scan goes on with the client where it was, or behind. *)
LEMMA ScanStep ==
  ASSUME IInv, ScanKnown, [Next]_vars, mClient' # NoClient
  PROVE  mClient' \in Clients /\ Found(mClient', mSlot')
<1> USE DEF IInv, TypeOK
<1>1. ASSUME NEW c \in Clients, NEW b \in SUBSET Unsent, Update(c, b)
      PROVE  c \in Clients /\ Found(c, 0) /\ mClient' = c /\ mSlot' = 0
  BY <1>1 DEF Update, ScanKnown
<1>2. CASE UpdateSkip
  <2>1. PICK n \in Slots : n = mSlot
    OBVIOUS
  <2>2. mClient' = mClient /\ mSlot' = mSlot + 1 /\ sge_evc[mSlot] # mClient
    BY <1>2 DEF UpdateSkip, UpdateDone
  <2> QED BY <2>1, <2>2 DEF ScanKnown, Found, Slots
<1>3. CASE UpdateSignal
  BY <1>3 DEF UpdateSignal, UpdateDone
<1>4. CASE ~ UpdateSkip /\ ~ UpdateSignal /\ ~ \E c \in Clients, b \in SUBSET Unsent : Update(c, b)
  <2>1. UNCHANGED <<mClient, mSlot>>
    BY <1>4 DEF Next, Start, Continue, Master, LockRefused, InitCheck, InitMark, InitWipe,
       InitLock, InitScan, InitStore, InitReturn, CloseLock, CloseElem, CloseReturn, InterruptNative,
       RegisterNative, SetFlushNative, SubscribeNative, Configure, GetFlushNative,
       CommitNative, FillWait, FillResume, FillGet, FillGot, FillProcess, FillAck,
       InitNative, InitNativeFails, Call, SpuriousWakeup, RemoteReport, vars, masterVars
  <2> QED BY <2>1 DEF ScanKnown
<1> QED BY <1>1, <1>2, <1>3, <1>4
(* ScanKnown is inductive beside IInv. *)
LEMMA ScanKeeps == ASSUME IInv, IInv', ScanKnown, [Next]_vars PROVE ScanKnown'
<1> USE DEF IInv, TypeOK
<1>1. ASSUME NEW c \in Clients, c \in registry' PROVE Found(c, 0)'
  <2>1. Found(c, 0)
    BY <1>1, RegistryStep DEF ScanKnown
  <2> QED BY <2>1, FoundStays
<1>2. ASSUME mClient' # NoClient PROVE Found(mClient, mSlot)'
  <2>1. PICK c \in Clients, n \in Int : c = mClient' /\ n = mSlot' /\ Found(c, n)
    BY <1>2, ScanStep DEF Slots
  <2>2. Found(c, n)'
    BY <2>1, FoundStays
  <2> QED BY <2>1, <2>2 DEF Found
<1> QED BY <1>1, <1>2 DEF ScanKnown

(* A thread in a native of an object with an index has that object's       *)
(* client in front of it, unless the object's is destroyed.                *)
LEMMA ClientInSlot ==
  ASSUME IInv, NEW t \in Threads, pc[t] \in FillPcs, NEW c \in Clients,
         idx[t] \in Slots, sge_evc[idx[t]] = c
  PROVE  target[t] \in Clients /\ (target[t] = c \/ life[target[t]] = "destroyed")
<1>1. target[t] \in Clients /\ idx[t] = handle[target[t]] /\ handle[target[t]] # NoIndex
  BY DEF IInv, IndexCalls, IndexPcs, Slots, NoIndex
<1> QED BY <1>1 DEF IInv, HandlesGiven, OpenClientOwnsSlot

(* A turn of waitEVC's loop. *)
LEMMA WaitTurnMoves ==
  ASSUME IInv, ElistKnown, NEW t \in Threads, NEW c \in Clients \cup {NoClient},
         pc[t] \in {"fill_wait", "fill_woken"}, Locked(t, c), WaitTurn(t, idx[t], c),
         UNCHANGED <<target, masterVars, histVars>>
  PROVE  Quiet \/ \E d \in Clients : Taken(t, d)
<1> USE DEF IInv, TypeOK, masterVars, histVars, historyOfEvents, ElistKnown
<1>1. CASE UNCHANGED <<elist, pending>>
  BY <1>1 DEF Quiet, WaitTurn, Goto
<1>2. CASE ~UNCHANGED <<elist, pending>>
  <2>1. /\ c \in Clients /\ pc' = [pc EXCEPT ![t] = "fill_process"]
        /\ elist' = [elist EXCEPT ![t] = pending[c]]
        /\ pending' = [pending EXCEPT ![c] = {}]
    BY <1>2 DEF WaitTurn, Goto
  <2>2. target[t] \in Clients /\ (target[t] = c \/ life[target[t]] = "destroyed")
    BY <2>1, ClientInSlot DEF Locked, ValidIndex, FillPcs
  <2>3. Taken(t, c)
    BY <2>1, <2>2 DEF Taken
  <2> QED BY <2>1, <2>3
<1> QED BY <1>1, <1>2

(* What a thread that goes on does with events. *)
LEMMA ContinueMoves ==
  ASSUME IInv, ElistKnown, NEW t \in Threads, Continue(t)
  PROVE  Quiet \/ FillProcess(t) \/ \E c \in Clients : Taken(t, c)
<1> USE DEF IInv, TypeOK
<1>1. CASE LockRefused(t) \/ InitReturn(t) \/ GetFlushNative(t) \/ RegisterNative(t)
           \/ SetFlushNative(t) \/ SubscribeNative(t) \/ CommitNative(t) \/ FillAck(t)
  <2>1. /\ pc[t] # "fill_process" /\ elist[t] = {}
        /\ elist' = [elist EXCEPT ![t] = {}] /\ UNCHANGED target
        /\ \A u \in Threads : u # t => pc'[u] = pc[u]
        /\ UNCHANGED <<historyOfEvents, pending, mBatch, mClient>>
    BY <1>1 DEF LockRefused, InitReturn, GetFlushNative, RegisterNative, SetFlushNative,
       SubscribeNative, CommitNative, Configure, FillAck, Return, Result, Goto, LockPcs,
       ShortOps, ElistKnown, historyOfEvents, histVars, clientVars, masterVars, slotVars
  <2> QED BY <2>1 DEF Quiet, ElistKnown
<1>2. CASE CloseElem(t) \/ InterruptNative(t)
  <2>1. pc[t] # "fill_process" /\ elist[t] = {}
    BY <1>2 DEF CloseElem, InterruptNative, ElistKnown
  <2>2. \A u \in Threads \ {t} : pc'[u] \in {pc[u], "fill_woken"} /\ (pc[u] = "fill_process" => pc'[u] = pc[u])
    BY <1>2 DEF CloseElem, InterruptNative, Woken
  <2>3. elist' = [elist EXCEPT ![t] = {}] /\ UNCHANGED target
    BY <1>2 DEF CloseElem, InterruptNative, Result
  <2>4. UNCHANGED <<historyOfEvents, pending, mBatch, mClient>>
    BY <1>2 DEF CloseElem, InterruptNative, historyOfEvents, histVars, clientVars, masterVars
  <2> QED BY <2>1, <2>2, <2>3, <2>4 DEF Quiet, ElistKnown
<1>3. CASE InitCheck(t) \/ InitMark(t) \/ InitWipe(t) \/ InitLock(t) \/ InitScan(t) \/ InitStore(t)
           \/ CloseLock(t) \/ CloseReturn(t) \/ FillGet(t)
  <2>1. /\ pc[t] # "fill_process" /\ elist[t] = {} /\ UNCHANGED <<elist, target>>
        /\ \A u \in Threads : u # t => pc'[u] = pc[u]
        /\ UNCHANGED <<historyOfEvents, pending, mBatch, mClient>>
    BY <1>3 DEF InitCheck, InitMark, InitWipe, InitLock, InitScan, InitStore, CloseLock, CloseReturn,
       FillGet, Goto, ElistKnown, historyOfEvents, histVars, clientVars, masterVars
  <2> QED BY <2>1 DEF Quiet, ElistKnown
<1>4. CASE FillWait(t) \/ FillResume(t)
  BY <1>4, WaitTurnMoves, InternalAssumption DEF FillWait, FillResume
<1>5. CASE FillGot(t)
  <2>1. idx[t] \in Slots /\ pc[t] = "fill_get" /\ elist[t] = {}
    BY <1>5 DEF FillGot, MutexesHeld, ElistKnown
  <2>2. PICK c \in Clients :
          /\ sge_evc[idx[t]] = c
          /\ elist' = [elist EXCEPT ![t] = pending[c]]
          /\ pending' = [pending EXCEPT ![c] = {}]
    BY <1>5 DEF FillGot
  <2>3. target[t] \in Clients /\ (target[t] = c \/ life[target[t]] = "destroyed")
    BY <2>1, <2>2, ClientInSlot DEF FillPcs
  <2>4. Taken(t, c)
    BY <1>5, <2>1, <2>2, <2>3 DEF FillGot, Goto, Taken, historyOfEvents, histVars, masterVars
  <2> QED BY <2>4
<1> QED BY <1>1, <1>2, <1>3, <1>4, <1>5 DEF Continue

(* What any step does with them. *)
LEMMA Moves ==
  ASSUME IInv, IInv', ElistKnown, BatchKnown, ScanKnown, [Next]_vars
  PROVE  \/ Quiet \/ Posted \/ Missed
         \/ \E t \in Threads : FillProcess(t) \/ \E c \in Clients : Taken(t, c)
         \/ \E c \in Clients, b \in SUBSET Unsent : Update(c, b) \/ RemoteReport(c, b)
<1> USE DEF IInv, TypeOK, historyOfEvents, histVars
<1>1. CASE \E t \in Threads : Continue(t)
  BY <1>1, ContinueMoves
<1>2. CASE \E t \in Threads : Start(t) \/ SpuriousWakeup(t)
  BY <1>2 DEF Start, InitNative, InitNativeFails, Call, Enter, SpuriousWakeup, Goto, Quiet,
     ElistKnown, clientVars, masterVars, CallPcs, ShortOps
<1>3. CASE UpdateSkip
  <2>1. CASE mSlot + 1 \in Slots
    BY <1>3, <2>1 DEF UpdateSkip, Quiet, ElistKnown, callVars, clientVars
  <2>2. CASE mSlot + 1 \notin Slots
    <3>1. life[mClient] = "destroyed"
      BY <1>3, <2>2, MaxEvcAssumption DEF UpdateSkip, ScanKnown, Found, Slots
    <3> QED BY <1>3, <2>2, <3>1 DEF UpdateSkip, UpdateDone, Missed, callVars, clientVars
  <2> QED BY <2>1, <2>2
<1>4. CASE UpdateSignal
  <2>1. CASE mBatch = {}
    BY <1>4, <2>1 DEF UpdateSignal, UpdateDone, Quiet, ElistKnown, callVars
  <2>2. CASE mBatch # {}
    BY <1>4, <2>2 DEF UpdateSignal, UpdateDone, Posted, Woken
  <2> QED BY <2>1, <2>2
<1>5. CASE \E c \in Clients, b \in SUBSET Unsent : Update(c, b) \/ RemoteReport(c, b)
  BY <1>5
<1>6. CASE UNCHANGED vars
  BY <1>6 DEF vars, callVars, clientVars, masterVars, Quiet, ElistKnown
<1> QED BY <1>1, <1>2, <1>3, <1>4, <1>5, <1>6 DEF Next, Master
-----------------------------------------------------------------------------
(* What the moves keep.                                                    *)

(* A report to a client outside qmaster. *)
LEMMA RemoteReportSends ==
  ASSUME IInv, NEW c \in Clients, NEW b \in SUBSET Unsent, RemoteReport(c, b)
  PROVE  /\ UNCHANGED <<mBatch, mClient>> /\ mClient \in Clients \cup {NoClient}
         /\ \A d \in Clients : sent'[d] = IF d = c THEN sent[d] \cup b ELSE sent[d]
         /\ \A d \in Clients : pending'[d] \subseteq IF d = c THEN pending[d] \cup b
                                                            ELSE pending[d]
<1>0. TypeOK
  BY DEF IInv
<1>1. UNCHANGED <<mBatch, mClient>> /\ mClient \in Clients \cup {NoClient}
  BY <1>0 DEF RemoteReport, masterVars, TypeOK
<1>2. ASSUME NEW d \in Clients
      PROVE  sent'[d] = IF d = c THEN sent[d] \cup b ELSE sent[d]
  BY <1>0 DEF RemoteReport, TypeOK
<1>3. ASSUME NEW d \in Clients
      PROVE  pending'[d] \subseteq IF d = c THEN pending[d] \cup b ELSE pending[d]
  <2>1. CASE life[c] = "destroyed"
    BY <2>1 DEF RemoteReport
  <2>2. CASE life[c] # "destroyed"
    BY <1>0, <2>2 DEF RemoteReport, TypeOK
  <2> QED BY <2>1, <2>2
<1> QED BY <1>1, <1>2, <1>3

(* Whose events are where. *)
LEMMA BatchKeeps ==
  ASSUME IInv, IInv', BatchKnown, ElistKnown, ScanKnown, [Next]_vars PROVE BatchKnown'
<1> USE NoClientAssumption DEF BatchKnown, historyOfEvents
<1>0. TypeOK /\ TypeOK'
  BY DEF IInv
<1>1. CASE Quiet
  BY <1>1 DEF Quiet
<1>2. CASE Posted
  BY <1>0, <1>2 DEF Posted, TypeOK
<1>3. CASE Missed
  BY <1>3 DEF Missed
<1>4. ASSUME NEW t \in Threads, FillProcess(t) PROVE BatchKnown'
  BY <1>4 DEF FillProcess, clientVars, masterVars
<1>5. ASSUME NEW t \in Threads, NEW c \in Clients, Taken(t, c) PROVE BatchKnown'
  BY <1>0, <1>5 DEF Taken, TypeOK
<1>6. ASSUME NEW c \in Clients, NEW b \in SUBSET Unsent, Update(c, b) PROVE BatchKnown'
  <2>1. \A d \in Clients : b \cap sent[d] = {}
    BY DEF Unsent
  <2> QED BY <1>0, <1>6, <2>1 DEF Update, TypeOK, clientVars
<1>7. ASSUME NEW c \in Clients, NEW b \in SUBSET Unsent, RemoteReport(c, b) PROVE BatchKnown'
  <2>1. \A d \in Clients : b \cap sent[d] = {}
    BY DEF Unsent
  <2>2. /\ UNCHANGED <<mBatch, mClient>> /\ mClient \in Clients \cup {NoClient}
        /\ \A d \in Clients : sent'[d] = IF d = c THEN sent[d] \cup b ELSE sent[d]
        /\ \A d \in Clients : pending'[d] \subseteq IF d = c THEN pending[d] \cup b
                                                            ELSE pending[d]
    BY <1>7, RemoteReportSends
  <2>0. ASSUME NEW d \in Clients PROVE sent[d] \subseteq sent'[d]
    <3>1. sent'[d] = sent[d] \/ sent'[d] = sent[d] \cup b
      BY <2>2
    <3> QED BY <3>1
  <2>3. ASSUME mBatch' # {} PROVE mClient' # NoClient /\ mBatch' \subseteq sent'[mClient']
    <3>1. mBatch # {} /\ mClient # NoClient /\ mBatch \subseteq sent[mClient] /\ mClient \in Clients
      BY <2>2, <2>3
    <3> QED BY <2>0, <2>2, <3>1
  <2>4. ASSUME NEW d \in Clients, NEW e \in Clients, d # e PROVE sent'[d] \cap sent'[e] = {}
    <3>1. sent[d] \cap sent[e] = {} /\ b \cap sent[d] = {} /\ b \cap sent[e] = {}
      BY <2>1, <2>4
    <3>2. sent'[d] \in {sent[d], sent[d] \cup b} /\ sent'[e] \in {sent[e], sent[e] \cup b}
      BY <2>2
    <3>3. sent'[d] = sent[d] \/ sent'[e] = sent[e]
      BY <2>2, <2>4
    <3> QED BY <3>1, <3>2, <3>3
  <2>5. ASSUME NEW d \in Clients PROVE pending'[d] \subseteq sent'[d]
    BY <2>2
  <2> QED BY <2>3, <2>4, <2>5
<1> QED BY <1>1, <1>2, <1>3, <1>4, <1>5, <1>6, <1>7, Moves

(* The events in a thread's hands. *)
LEMMA ElistKeeps ==
  ASSUME IInv, IInv', BatchKnown, ElistKnown, ScanKnown, [Next]_vars PROVE ElistKnown'
<1> USE DEF ElistKnown, historyOfEvents
<1>0. TypeOK /\ TypeOK' /\ \A c \in Clients : life[c] = "destroyed" => life'[c] = "destroyed"
  BY DestroyedStay DEF IInv
<1>1. CASE Quiet
  BY <1>0, <1>1 DEF Quiet
<1>2. CASE Posted
  BY <1>0, <1>2 DEF Posted
<1>3. CASE Missed
  BY <1>0, <1>3 DEF Missed
<1>4. ASSUME NEW t \in Threads, FillProcess(t) PROVE ElistKnown'
  BY <1>0, <1>4 DEF FillProcess, clientVars, TypeOK, Goto
<1>5. ASSUME NEW t \in Threads, NEW c \in Clients, Taken(t, c) PROVE ElistKnown'
  <2> SUFFICES ASSUME NEW u \in Threads
               PROVE  /\ pc'[u] # "fill_process" => elist'[u] = {}
                      /\ elist'[u] # {} =>
                           target'[u] \in Clients
                           /\ (life'[target'[u]] = "destroyed" \/ elist'[u] \subseteq sent'[target'[u]])
    OBVIOUS
  <2>1. CASE u = t
    BY <1>0, <1>5, <2>1 DEF Taken, TypeOK, BatchKnown
  <2>2. CASE u # t
    BY <1>0, <1>5, <2>2 DEF Taken, TypeOK
  <2> QED BY <2>1, <2>2
<1>6. ASSUME NEW c \in Clients, NEW b \in SUBSET Unsent, Update(c, b) \/ RemoteReport(c, b)
      PROVE  ElistKnown'
  <2>1. \A d \in Clients : sent[d] \subseteq sent'[d]
    BY <1>0, <1>6 DEF Update, RemoteReport, TypeOK
  <2>2. UNCHANGED <<pc, target, elist, life>>
    BY <1>6 DEF Update, RemoteReport, callVars, clientVars
  <2> QED BY <2>1, <2>2
<1> QED BY <1>1, <1>2, <1>3, <1>4, <1>5, <1>6, Moves

(* Missed events are those of the destroyed. *)
LEMMA MissedKeeps ==
  ASSUME IInv, IInv', BatchKnown, ElistKnown, ScanKnown, Accounted, MissedMeansDestroyed, [Next]_vars
  PROVE  MissedMeansDestroyed'
<1> USE DEF MissedMeansDestroyed, historyOfEvents
<1>0. TypeOK /\ TypeOK' /\ \A c \in Clients : life[c] = "destroyed" => life'[c] = "destroyed"
  BY DestroyedStay DEF IInv
<1>1. CASE Quiet \/ Posted
  BY <1>0, <1>1 DEF Quiet, Posted
<1>2. CASE Missed
  BY <1>0, <1>2 DEF Missed, BatchKnown
<1>3. ASSUME NEW t \in Threads, FillProcess(t) PROVE MissedMeansDestroyed'
  BY <1>0, <1>3 DEF FillProcess
<1>4. ASSUME NEW t \in Threads, NEW c \in Clients, Taken(t, c) PROVE MissedMeansDestroyed'
  BY <1>0, <1>4 DEF Taken
<1>5. ASSUME NEW c \in Clients, NEW b \in SUBSET Unsent, Update(c, b) \/ RemoteReport(c, b)
      PROVE  MissedMeansDestroyed'
  <2>1. b \cap missed = {}
    BY <1>0 DEF Unsent, Accounted, Somewhere, TypeOK
  <2>2. \A d \in Clients : b \cap sent[d] = {}
    BY DEF Unsent
  <2>3. sent' = [sent EXCEPT ![c] = @ \cup b]
    BY <1>5 DEF Update, RemoteReport
  <2>4. missed' = missed \/ (missed' = missed \cup b /\ life[c] = "destroyed")
    <3>1. CASE Update(c, b)
      BY <3>1 DEF Update
    <3>2. CASE RemoteReport(c, b)
      BY <3>2 DEF RemoteReport
    <3> QED BY <1>5, <3>1, <3>2
  <2> QED BY <1>0, <2>1, <2>2, <2>3, <2>4 DEF TypeOK
<1> QED BY <1>1, <1>2, <1>3, <1>4, <1>5, Moves

(* So are the events given to a caller who was not sent them. *)
LEMMA ForeignKeeps ==
  ASSUME IInv, IInv', BatchKnown, ElistKnown, ScanKnown, ForeignEventsMeanDestroyed, [Next]_vars
  PROVE  ForeignEventsMeanDestroyed'
<1> USE DEF ForeignEventsMeanDestroyed, historyOfEvents
<1>0. TypeOK /\ TypeOK' /\ \A c \in Clients : life[c] = "destroyed" => life'[c] = "destroyed"
  BY DestroyedStay DEF IInv
<1>1. CASE Quiet \/ Posted \/ Missed
  BY <1>0, <1>1 DEF Quiet, Posted, Missed
<1>3. ASSUME NEW t \in Threads, FillProcess(t) PROVE ForeignEventsMeanDestroyed'
  <2>1. PICK converted \in SUBSET elist[t] :
          delivered' = [delivered EXCEPT ![target[t]] = @ \cup converted]
    BY <1>3 DEF FillProcess
  <2> QED BY <1>0, <1>3, <2>1 DEF FillProcess, ElistKnown, TypeOK, clientVars
<1>4. ASSUME NEW t \in Threads, NEW c \in Clients, Taken(t, c) PROVE ForeignEventsMeanDestroyed'
  BY <1>0, <1>4 DEF Taken
<1>5. ASSUME NEW c \in Clients, NEW b \in SUBSET Unsent, Update(c, b) \/ RemoteReport(c, b)
      PROVE  ForeignEventsMeanDestroyed'
  <2>1. \A d \in Clients : sent[d] \subseteq sent'[d]
    BY <1>0, <1>5 DEF Update, RemoteReport, TypeOK
  <2>2. UNCHANGED delivered
    BY <1>5 DEF Update, RemoteReport
  <2> QED BY <1>0, <2>1, <2>2
<1> QED BY <1>1, <1>3, <1>4, <1>5, Moves

-----------------------------------------------------------------------------
(* Every event is in one place.                                            *)

Sent(e) == \E c \in Clients : e \in sent[c]
Fine(e) == NowhereElse(e) /\ (Somewhere(e) <=> Sent(e))

(* An event a step does not move. *)
LEMMA FineUnmoved ==
  ASSUME NEW e \in Events, Fine(e),
         e \in mBatch <=> e \in mBatch', Pending(e)' = Pending(e), InHand(e)' = InHand(e),
         Given(e)' = Given(e), e \in dropped <=> e \in dropped', e \in missed <=> e \in missed',
         Sent(e) <=> Sent(e)'
  PROVE  Fine(e)'
BY DEF Fine, NowhereElse, Somewhere

(* An event of an update that gets to its client, or misses it. *)
LEMMA FineUpdated ==
  ASSUME TypeOK, TypeOK', NEW e \in Events, Fine(e), Posted \/ Missed PROVE Fine(e)'
<1> USE DEF historyOfEvents, Pending, InHand, Given, Sent
<1>1. CASE e \notin mBatch
  <2>1. /\ e \notin mBatch' /\ Pending(e)' = Pending(e) /\ InHand(e)' = InHand(e)
        /\ Given(e)' = Given(e) /\ (e \in dropped <=> e \in dropped')
        /\ (e \in missed <=> e \in missed') /\ (Sent(e) <=> Sent(e)')
    BY <1>1 DEF Posted, Missed, TypeOK
  <2> QED BY <1>1, <2>1, FineUnmoved
<1>2. CASE e \in mBatch /\ Posted
  <2>1. /\ Pending(e) = {} /\ InHand(e) = {} /\ Given(e) = {} /\ e \notin dropped \cup missed
        /\ Sent(e)
    BY <1>2 DEF Fine, NowhereElse, Somewhere
  <2>2. Pending(e)' = {mClient}
    BY <1>2, <2>1 DEF Posted, TypeOK
  <2>3. /\ InHand(e)' = {} /\ Given(e)' = {} /\ e \notin dropped' \cup missed' /\ Sent(e)'
        /\ e \notin mBatch'
    BY <1>2, <2>1 DEF Posted
  <2> QED BY <2>2, <2>3 DEF Fine, NowhereElse, Somewhere
<1>3. CASE e \in mBatch /\ Missed
  <2>1. /\ Pending(e) = {} /\ InHand(e) = {} /\ Given(e) = {} /\ e \notin dropped \cup missed
        /\ Sent(e)
    BY <1>3 DEF Fine, NowhereElse, Somewhere
  <2>2. /\ Pending(e)' = {} /\ InHand(e)' = {} /\ Given(e)' = {} /\ e \notin dropped'
        /\ e \in missed' /\ Sent(e)' /\ e \notin mBatch'
    BY <1>3, <2>1 DEF Missed
  <2> QED BY <2>2 DEF Fine, NowhereElse, Somewhere
<1> QED BY <1>1, <1>2, <1>3

(* One a thread takes. *)
LEMMA FineTaken ==
  ASSUME TypeOK, TypeOK', NEW e \in Events, Fine(e), NEW t \in Threads, NEW c \in Clients,
         Taken(t, c)
  PROVE  Fine(e)'
<1>1. /\ Given(e)' = Given(e) /\ (Sent(e) <=> Sent(e)') /\ UNCHANGED <<mBatch, dropped, missed>>
  BY DEF Taken, historyOfEvents, Given, Sent
<1>2. CASE e \notin pending[c]
  <2>1. Pending(e)' = Pending(e)
    BY <1>2 DEF Taken, Pending, TypeOK
  <2>2. InHand(e)' = InHand(e)
    BY <1>2 DEF Taken, InHand, TypeOK
  <2> QED BY <1>1, <2>1, <2>2, FineUnmoved
<1>3. CASE e \in pending[c]
  <2>1. c \in Pending(e)
    BY <1>3 DEF Pending
  <2>2. /\ Pending(e) = {c} /\ InHand(e) = {} /\ Given(e) = {} /\ e \notin dropped \cup missed
        /\ Sent(e) /\ e \notin mBatch
    BY <2>1 DEF Fine, NowhereElse, Somewhere
  <2>3. Pending(e)' = {}
    BY <2>2 DEF Taken, Pending, TypeOK
  <2>4. InHand(e)' = {t}
    BY <1>3, <2>2 DEF Taken, InHand, TypeOK
  <2> QED BY <1>1, <2>2, <2>3, <2>4 DEF Fine, NowhereElse, Somewhere
<1> QED BY <1>2, <1>3

(* One a thread gives its caller, or cannot convert. *)
LEMMA FineProcessed ==
  ASSUME TypeOK, TypeOK', ElistKnown, NEW e \in Events, Fine(e), NEW t \in Threads, FillProcess(t)
  PROVE  Fine(e)'
<1>0. PICK converted \in SUBSET elist[t] :
        /\ delivered' = [delivered EXCEPT ![target[t]] = @ \cup converted]
        /\ dropped' = dropped \cup (elist[t] \ converted)
  BY DEF FillProcess
<1>1. /\ Pending(e)' = Pending(e) /\ (Sent(e) <=> Sent(e)') /\ UNCHANGED <<mBatch, missed>>
  BY DEF FillProcess, Pending, Sent, clientVars, masterVars
<1>2. elist' = [elist EXCEPT ![t] = {}]
  BY DEF FillProcess
<1>3. CASE e \notin elist[t]
  <2>1. InHand(e)' = InHand(e)
    BY <1>2, <1>3 DEF InHand, TypeOK
  <2>2. Given(e)' = Given(e) /\ (e \in dropped <=> e \in dropped')
    BY <1>0, <1>3 DEF Given, TypeOK
  <2> QED BY <1>1, <2>1, <2>2, FineUnmoved
<1>4. CASE e \in elist[t]
  <2>1. t \in InHand(e) /\ target[t] \in Clients
    BY <1>4 DEF InHand, ElistKnown
  <2>2. /\ Pending(e) = {} /\ InHand(e) = {t} /\ Given(e) = {} /\ e \notin dropped \cup missed
        /\ Sent(e) /\ e \notin mBatch
    BY <2>1 DEF Fine, NowhereElse, Somewhere
  <2>3. InHand(e)' = {}
    BY <1>2, <2>2 DEF InHand, TypeOK
  <2>4. CASE e \in converted
    <3>1. Given(e)' = {target[t]}
      BY <1>0, <2>1, <2>2, <2>4 DEF Given, TypeOK
    <3>2. e \notin dropped'
      BY <1>0, <2>2, <2>4
    <3> QED BY <1>1, <2>2, <2>3, <3>1, <3>2 DEF Fine, NowhereElse, Somewhere
  <2>5. CASE e \notin converted
    <3>1. Given(e)' = {}
      BY <1>0, <2>1, <2>2, <2>5 DEF Given, TypeOK
    <3>2. e \in dropped'
      BY <1>0, <1>4, <2>5
    <3> QED BY <1>1, <2>2, <2>3, <3>1, <3>2 DEF Fine, NowhereElse, Somewhere
  <2> QED BY <2>4, <2>5
<1> QED BY <1>3, <1>4

(* One that is sent. *)
LEMMA FineSent ==
  ASSUME TypeOK, TypeOK', BatchKnown, NEW e \in Events, Fine(e), NEW c \in Clients,
         NEW b \in SUBSET Unsent, Update(c, b) \/ RemoteReport(c, b)
  PROVE  Fine(e)'
<1>1. sent' = [sent EXCEPT ![c] = @ \cup b]
  BY DEF Update, RemoteReport
<1>2. InHand(e)' = InHand(e) /\ Given(e)' = Given(e) /\ UNCHANGED dropped
  BY DEF Update, RemoteReport, callVars, InHand, Given
<1>3. CASE e \notin b
  <2>1. Sent(e) <=> Sent(e)'
    BY <1>1, <1>3 DEF Sent, TypeOK
  <2>2. CASE Update(c, b)
    <3>1. Pending(e)' = Pending(e) /\ UNCHANGED missed /\ e \notin mBatch' /\ e \notin mBatch
      BY <1>3, <2>2 DEF Update, clientVars, Pending, BatchKnown
    <3> QED BY <1>2, <2>1, <3>1, FineUnmoved
  <2>3. CASE RemoteReport(c, b)
    <3>1. UNCHANGED mBatch /\ (e \in missed <=> e \in missed')
      BY <1>3, <2>3 DEF RemoteReport, masterVars
    <3>2. Pending(e)' = Pending(e)
      <4>1. CASE life[c] = "destroyed"
        BY <2>3, <4>1 DEF RemoteReport, Pending
      <4>2. CASE life[c] # "destroyed"
        <5>1. pending' = [pending EXCEPT ![c] = @ \cup b]
          BY <2>3, <4>2 DEF RemoteReport
        <5> QED BY <1>3, <5>1 DEF Pending, TypeOK
      <4> QED BY <4>1, <4>2
    <3> QED BY <1>2, <2>1, <3>1, <3>2, FineUnmoved
  <2> QED BY <2>2, <2>3
<1>4. CASE e \in b
  <2>1. ~Sent(e)
    BY <1>4 DEF Unsent, Sent
  <2>2. /\ Pending(e) = {} /\ InHand(e) = {} /\ Given(e) = {} /\ e \notin dropped \cup missed
        /\ e \notin mBatch
    BY <2>1 DEF Fine, Somewhere
  <2>3. Sent(e)'
    BY <1>1, <1>4 DEF Sent, TypeOK
  <2>4. CASE Update(c, b)
    <3>1. Pending(e)' = {} /\ e \notin missed' /\ e \in mBatch'
      BY <1>4, <2>2, <2>4 DEF Update, clientVars, Pending
    <3> QED BY <1>2, <2>2, <2>3, <3>1 DEF Fine, NowhereElse, Somewhere
  <2>5. CASE RemoteReport(c, b)
    <3>0. UNCHANGED mBatch
      BY <2>5 DEF RemoteReport, masterVars
    <3>1. CASE life[c] = "destroyed"
      <4>1. Pending(e)' = {} /\ e \in missed'
        BY <1>4, <2>2, <2>5, <3>1 DEF RemoteReport, Pending
      <4> QED BY <1>2, <2>2, <2>3, <3>0, <4>1 DEF Fine, NowhereElse, Somewhere
    <3>2. CASE life[c] # "destroyed"
      <4>1. pending' = [pending EXCEPT ![c] = @ \cup b] /\ UNCHANGED missed
        BY <2>5, <3>2 DEF RemoteReport
      <4>2. Pending(e)' = {c}
        BY <1>4, <2>2, <4>1 DEF Pending, TypeOK
      <4> QED BY <1>2, <2>2, <2>3, <3>0, <4>1, <4>2 DEF Fine, NowhereElse, Somewhere
    <3> QED BY <3>1, <3>2
  <2> QED BY <2>4, <2>5
<1> QED BY <1>3, <1>4

(* Any. *)
LEMMA AccountedKeeps ==
  ASSUME IInv, IInv', BatchKnown, ElistKnown, ScanKnown, Accounted, [Next]_vars
  PROVE  Accounted'
<1>0. TypeOK /\ TypeOK'
  BY DEF IInv
<1> SUFFICES ASSUME NEW e \in Events PROVE Fine(e)'
  BY DEF Accounted, Fine, Sent
<1>1. Fine(e)
  BY DEF Accounted, Fine, Sent
<1>2. CASE Quiet
  <2>1. /\ UNCHANGED <<mBatch, dropped, missed>> /\ Pending(e)' = Pending(e)
        /\ InHand(e)' = InHand(e) /\ Given(e)' = Given(e) /\ (Sent(e) <=> Sent(e)')
    BY <1>2 DEF Quiet, historyOfEvents, Pending, InHand, Given, Sent
  <2> QED BY <1>1, <2>1, FineUnmoved
<1> QED
  BY <1>0, <1>1, <1>2, Moves, FineUpdated, FineTaken, FineProcessed, FineSent

-----------------------------------------------------------------------------
(* What an application may count on about its events.                      *)

(* The invariant about events holds of every run of the natives and of the *)
(* delivery thread.                                                        *)
THEOREM EventInvariance == Spec => []EventIInv
<1>1. Init => EventIInv
  <2> SUFFICES ASSUME Init PROVE EventIInv
    OBVIOUS
  <2> USE NoClientAssumption DEF Init, InitWith
  <2>1. ScanKnown /\ BatchKnown /\ ElistKnown
    BY DEF ScanKnown, BatchKnown, ElistKnown
  <2>2. MissedMeansDestroyed /\ ForeignEventsMeanDestroyed
    BY DEF MissedMeansDestroyed, ForeignEventsMeanDestroyed
  <2>3. Accounted
    BY DEF Accounted, NowhereElse, Somewhere, Pending, InHand, Given
  <2> QED BY <2>1, <2>2, <2>3 DEF EventIInv
<1>2. IInv /\ IInv' /\ EventIInv /\ [Next]_vars => EventIInv'
  BY ScanKeeps, BatchKeeps, ElistKeeps, AccountedKeeps, MissedKeeps, ForeignKeeps DEF EventIInv
<1> QED BY <1>1, <1>2, Invariance, PTL DEF Spec

(* MissedMeansDestroyed, of any number of threads and clients: the scan of *)
(* the table misses a client only if it is destroyed.                      *)
THEOREM MissedAreDestroyed == Spec => []MissedMeansDestroyed
<1>1. EventIInv => MissedMeansDestroyed
  BY DEF EventIInv
<1> QED BY <1>1, EventInvariance, PTL

(* ForeignEventsMeanDestroyed: an object's caller gets the events of       *)
(* another client only after its own was destroyed.                        *)
THEOREM ForeignEventsOnlyAfterClose == Spec => []ForeignEventsMeanDestroyed
<1>1. EventIInv => ForeignEventsMeanDestroyed
  BY DEF EventIInv
<1> QED BY <1>1, EventInvariance, PTL

(* EventsAccounted: an event that was sent is in one place, with the       *)
(* client it was sent to until a fillEvents took it, and is only lost with *)
(* a destroyed client or to a failed conversion.                           *)
THEOREM EventsInOnePlace == Spec => []EventsAccounted
<1>1. IInv /\ EventIInv => EventsAccounted
  <2> SUFFICES ASSUME IInv, EventIInv, NEW c \in Clients, NEW e \in sent[c]
               PROVE  \E p \in Places(e) :
                        /\ Places(e) = {p}
                        /\ p[1] \in {"update", "pending", "discarded"} => p[2] = c
                        /\ p[1] \in {"discarded", "missed"} => life[c] = "destroyed"
    BY DEF EventsAccounted
  <2>1. e \in Events /\ NowhereElse(e) /\ Somewhere(e)
    BY DEF IInv, TypeOK, EventIInv, Accounted
  <2>2. \A d \in Clients : e \in sent[d] => d = c
    BY DEF EventIInv, BatchKnown
  <2>3. e \in mBatch => mClient = c
    BY <2>2, NoClientAssumption DEF EventIInv, BatchKnown, IInv, TypeOK
  <2>4. \A d \in Pending(e) : d = c
    BY <2>2 DEF EventIInv, BatchKnown, Pending
  <2>5. e \in missed => life[c] = "destroyed"
    BY DEF EventIInv, MissedMeansDestroyed
  <2> DEFINE word(d) == IF life[d] = "destroyed" THEN "discarded" ELSE "pending"
             U == {<<"update", d>> : d \in {f \in {mClient} : e \in mBatch}}
             P == {<<word(d), d>> : d \in Pending(e)}
             H == {<<"elist", t>> : t \in InHand(e)}
             G == {<<"delivered", d>> : d \in Given(e)}
             D == {<<"dropped", d>> : d \in {g \in {NoClient} : e \in dropped}}
             M == {<<"missed", d>> : d \in {g \in {NoClient} : e \in missed}}
             Right(p) == /\ p[1] \in {"update", "pending", "discarded"} => p[2] = c
                         /\ p[1] \in {"discarded", "missed"} => life[c] = "destroyed"
  <2>6. Places(e) = U \cup P \cup H \cup G \cup D \cup M
    BY DEF Places
  <2>7. /\ (e \notin mBatch => U = {}) /\ (Pending(e) = {} => P = {})
        /\ (InHand(e) = {} => H = {}) /\ (Given(e) = {} => G = {})
        /\ (e \notin dropped => D = {}) /\ (e \notin missed => M = {})
    OBVIOUS
  <2>8. SUFFICES \E p : U \cup P \cup H \cup G \cup D \cup M = {p} /\ Right(p)
    BY <2>6
  <2>9. CASE e \in mBatch
    <3>1. U = {<<"update", c>>} /\ Right(<<"update", c>>)
      BY <2>3, <2>9
    <3>2. P = {} /\ H = {} /\ G = {} /\ D = {} /\ M = {}
      BY <2>1, <2>7, <2>9 DEF NowhereElse
    <3> QED BY <3>1, <3>2
  <2>10. CASE Pending(e) # {}
    <3>1. Pending(e) = {c}
      BY <2>4, <2>10
    <3>2. P = {<<word(c), c>>}
      BY <3>1
    <3>3. Right(<<word(c), c>>)
      OBVIOUS
    <3>4. U = {} /\ H = {} /\ G = {} /\ D = {} /\ M = {}
      BY <2>1, <2>7, <2>10 DEF NowhereElse
    <3> QED BY <3>2, <3>3, <3>4
  <2>11. CASE InHand(e) # {}
    <3>1. PICK t : InHand(e) = {t}
      BY <2>1, <2>11 DEF NowhereElse
    <3>2. H = {<<"elist", t>>} /\ Right(<<"elist", t>>)
      BY <3>1
    <3>3. U = {} /\ P = {} /\ G = {} /\ D = {} /\ M = {}
      BY <2>1, <2>7, <2>11 DEF NowhereElse
    <3> QED BY <3>2, <3>3
  <2>12. CASE Given(e) # {}
    <3>1. PICK d : Given(e) = {d}
      BY <2>1, <2>12 DEF NowhereElse
    <3>2. G = {<<"delivered", d>>} /\ Right(<<"delivered", d>>)
      BY <3>1
    <3>3. U = {} /\ P = {} /\ H = {} /\ D = {} /\ M = {}
      BY <2>1, <2>7, <2>12 DEF NowhereElse
    <3> QED BY <3>2, <3>3
  <2>13. CASE e \in dropped
    <3>1. D = {<<"dropped", NoClient>>} /\ Right(<<"dropped", NoClient>>)
      BY <2>13
    <3>2. U = {} /\ P = {} /\ H = {} /\ G = {} /\ M = {}
      BY <2>1, <2>7, <2>13 DEF NowhereElse
    <3> QED BY <3>1, <3>2
  <2>14. CASE e \in missed
    <3>1. M = {<<"missed", NoClient>>} /\ Right(<<"missed", NoClient>>)
      BY <2>5, <2>14
    <3>2. U = {} /\ P = {} /\ H = {} /\ G = {} /\ D = {}
      BY <2>1, <2>7, <2>14 DEF NowhereElse
    <3> QED BY <3>1, <3>2
  <2> QED BY <2>1, <2>9, <2>10, <2>11, <2>12, <2>13, <2>14 DEF Somewhere
<1> QED BY <1>1, Invariance, EventInvariance, PTL
-----------------------------------------------------------------------------
(* The table implements the mailboxes.                                     *)

Occupants == {c \in Clients : \E i \in Slots : sge_evc[i] = c}

(* Who found no free slot is right until it gives the global mutex back. *)
FullSeen ==
  \A t \in Threads : pc[t] = "init_unlock" /\ idx[t] = NoIndex =>
    \A i \in Slots : sge_evc[i] # NoClient

(* A slot is freed only with the global mutex, which initNative holds. *)
LEMMA FullSeenStep ==
  ASSUME IInv, IInv', FullSeen, [Next]_vars PROVE FullSeen'
<1> USE NoClientAssumption DEF IInv, TypeOK, FullSeen, NoIndex, Slots
<1>1. CASE \E t \in Threads : Continue(t)
  <2> PICK t \in Threads : Continue(t)
    BY <1>1
  <2>1. CASE InitMark(t) \/ InitWipe(t)
    BY <2>1 DEF InitMark, InitWipe, ArrayReady
  <2>2. CASE InitScan(t) \/ InitStore(t)
    <3>1. CASE InitScan(t)
      BY <3>1 DEF InitScan, FirstFree, Goto, slotVars
    <3>2. CASE InitStore(t)
      <4>1. idx' = idx /\ idx[t] \in Slots /\ pc' = [pc EXCEPT ![t] = "init_unlock"]
        BY <3>2 DEF InitStore, InitCalls, Goto
      <4>2. \A u \in Threads : u # t => pc[u] # "init_unlock"
        BY <3>2 DEF InitStore, MutexesHeld, GlobalPcs
      <4> QED BY <4>1, <4>2
    <3> QED BY <2>2, <3>1, <3>2
  <2>3. CASE CloseElem(t)
    BY <2>3 DEF CloseElem, Woken, MutexesHeld, GlobalPcs
  <2>4. CASE InterruptNative(t)
    BY <2>4 DEF InterruptNative, Woken, Result
  <2>5. CASE LockRefused(t) \/ InitCheck(t) \/ InitLock(t) \/ InitReturn(t) \/ CloseLock(t)
             \/ CloseReturn(t) \/ FillGet(t) \/ FillGot(t) \/ FillProcess(t) \/ FillAck(t)
    BY <2>5 DEF LockRefused, InitCheck, InitLock, InitReturn, CloseLock, CloseReturn, FillGet,
       FillGot, FillProcess, FillAck, Goto, Return, Result, slotVars, LockPcs, ShortOps
  <2>6. CASE RegisterNative(t) \/ SetFlushNative(t) \/ SubscribeNative(t)
             \/ GetFlushNative(t) \/ CommitNative(t)
    BY <2>6 DEF RegisterNative, SetFlushNative, SubscribeNative, GetFlushNative,
       CommitNative, Configure, Return, Result, Goto, slotVars
  <2>7. CASE FillWait(t) \/ FillResume(t)
    BY <2>7 DEF FillWait, FillResume, WaitTurn, Goto
  <2> QED BY <2>1, <2>2, <2>3, <2>4, <2>5, <2>6, <2>7 DEF Continue
<1>2. CASE \E t \in Threads : Start(t) \/ SpuriousWakeup(t)
  BY <1>2 DEF Start, InitNative, InitNativeFails, Call, Enter, SpuriousWakeup, Goto, slotVars,
     CallPcs, ShortOps
<1>3. CASE Master
  <2>1. CASE UpdateSignal
    BY <2>1 DEF UpdateSignal, Woken, slotVars
  <2>2. CASE ~UpdateSignal
    BY <1>3, <2>2 DEF Master, Update, UpdateSkip, RemoteReport, slotVars, callVars
  <2> QED BY <2>1, <2>2
<1>4. CASE UNCHANGED vars
  BY <1>4 DEF vars, slotVars, callVars
<1> QED BY <1>1, <1>2, <1>3, <1>4 DEF Next

(* There are as many occupants as occupied slots. *)
LEMMA OccupantsCounted ==
  ASSUME IInv
  PROVE  LET taken == {i \in Slots : sge_evc[i] # NoClient}
         IN  IsFiniteSet(taken) /\ Cardinality(Occupants) = Cardinality(taken)
<1> DEFINE taken == {i \in Slots : sge_evc[i] # NoClient}
           f == [i \in taken |-> sge_evc[i]]
<1>1. IsFiniteSet(taken)
  <2>1. IsFiniteSet(Slots)
    BY FS_Interval, MaxEvcAssumption DEF Slots
  <2> QED BY <2>1, FS_Subset
<1>2. f \in Bijection(taken, Occupants)
  <2>1. f \in [taken -> Occupants]
    BY NoClientAssumption DEF IInv, TypeOK, Occupants
  <2>2. ASSUME NEW i \in taken, NEW j \in taken, f[i] = f[j] PROVE i = j
    BY <2>2, SlotsInjective
  <2>3. ASSUME NEW c \in Occupants PROVE \E i \in taken : f[i] = c
    BY NoClientAssumption DEF Occupants
  <2> HIDE DEF f, taken
  <2>4. f \in Injection(taken, Occupants)
    BY <2>1, <2>2 DEF Injection, IsInjective
  <2>5. f \in Surjection(taken, Occupants)
    BY <2>1, <2>3 DEF Surjection
  <2> QED BY <2>4, <2>5 DEF Bijection
<1>3. ExistsBijection(taken, Occupants)
  BY <1>2 DEF ExistsBijection
<1> QED BY <1>1, <1>3, FS_Bijection

(* So the capacity is reached exactly when no slot is free. *)
LEMMA CapacityReached ==
  ASSUME IInv
  PROVE  /\ (\A i \in Slots : sge_evc[i] # NoClient) => Cardinality(Occupants) = MaxEvc
         /\ (\E i \in Slots : sge_evc[i] = NoClient) => Cardinality(Occupants) < MaxEvc
<1> DEFINE taken == {i \in Slots : sge_evc[i] # NoClient}
<1>1. IsFiniteSet(taken) /\ Cardinality(Occupants) = Cardinality(taken)
  BY OccupantsCounted
<1>2. IsFiniteSet(Slots) /\ Cardinality(Slots) = MaxEvc
  BY FS_Interval, MaxEvcAssumption DEF Slots
<1>3. ASSUME \A i \in Slots : sge_evc[i] # NoClient PROVE Cardinality(Occupants) = MaxEvc
  <2>1. taken = Slots
    BY <1>3
  <2> QED BY <1>1, <1>2, <2>1
<1>4. ASSUME NEW i \in Slots, sge_evc[i] = NoClient PROVE Cardinality(Occupants) < MaxEvc
  <2>1. taken \in SUBSET Slots /\ taken # Slots
    BY <1>4
  <2> HIDE DEF taken
  <2>2. Cardinality(taken) \in Nat /\ Cardinality(taken) <= MaxEvc /\ Cardinality(taken) # MaxEvc
    BY <1>1, <1>2, <2>1, FS_Subset, FS_CardinalityType
  <2> QED BY <1>1, <2>2, MaxEvcAssumption
<1> QED BY <1>3, <1>4

Gone == {c \in Clients : life[c] = "destroyed"}
Refused == {c \in Clients : life[c] = "refused"}
Same == Occupants' = Occupants /\ Gone' = Gone /\ Refused' = Refused /\ pending' = pending

(* A step of a native that has nothing to do with mailboxes. *)
LEMMA SameUnless ==
  ASSUME UNCHANGED <<sge_evc, pending>>,
         \A c \in Clients : life'[c] = life[c] \/ {life[c], life'[c]} \cap {"destroyed", "refused"} = {}
  PROVE  Same
BY DEF Same, Occupants, Gone, Refused

(* fillEvents takes what a client in the table has, or nothing. *)
LEMMA TakeStep ==
  ASSUME IInv, NEW t \in Threads, FillWait(t) \/ FillResume(t) \/ FillGot(t)
  PROVE  \/ Same
         \/ \E c \in Occupants : /\ pending' = [pending EXCEPT ![c] = {}]
                                 /\ Occupants' = Occupants /\ Gone' = Gone /\ Refused' = Refused
<1>0. Occupants' = Occupants /\ Gone' = Gone /\ Refused' = Refused
  BY DEF FillWait, FillResume, FillGot, Occupants, Gone, Refused
<1>1. CASE pending' = pending
  BY <1>0, <1>1 DEF Same
<1>2. CASE pending' # pending
  <2>1. CASE FillGot(t)
    <3>1. PICK c \in Clients : sge_evc[idx[t]] = c /\ pending' = [pending EXCEPT ![c] = {}]
      BY <2>1 DEF FillGot
    <3>2. idx[t] \in Slots
      BY <2>1 DEF FillGot, IInv, MutexesHeld
    <3> QED BY <1>0, <3>1, <3>2 DEF Occupants
  <2>2. CASE FillWait(t) \/ FillResume(t)
    <3>1. PICK c \in Clients \cup {NoClient} : Locked(t, c) /\ WaitTurn(t, idx[t], c)
      BY <2>2, InternalAssumption DEF FillWait, FillResume
    <3>2. c \in Clients /\ pending' = [pending EXCEPT ![c] = {}]
      BY <1>2, <3>1 DEF WaitTurn
    <3>3. c \in Occupants
      BY <3>1, <3>2 DEF Locked, ValidIndex, Occupants
    <3> QED BY <1>0, <3>2, <3>3
  <2> QED BY <2>1, <2>2
<1> QED BY <1>1, <1>2

(* initNative's client is in no slot before the scan, nor after a vain one. *)
LEMMA NewcomerOutside ==
  ASSUME IInv, NEW t \in Threads, pc[t] \in InitPcs, pc[t] = "init_unlock" => idx[t] = NoIndex
  PROVE  target[t] \in Clients /\ target[t] \notin Occupants \cup Gone \cup Refused
<1>1. target[t] \in Clients /\ life[target[t]] = "created"
  BY DEF IInv, InitCalls
<1>2. ASSUME NEW i \in Slots, sge_evc[i] = target[t] PROVE FALSE
  <2>1. PICK u \in Threads : pc[u] = "init_unlock" /\ idx[u] = i /\ target[u] = sge_evc[i]
    BY <1>1, <1>2, NoClientAssumption DEF IInv, SlotsNotLeaked
  <2>2. u = t
    BY <1>2, <2>1 DEF IInv, InitCalls, InitPcs
  <2> QED BY <2>1, <2>2 DEF Slots, NoIndex
<1> QED BY <1>1, <1>2 DEF Occupants, Gone, Refused

(* The mailboxes count as the table does. *)
LEMMA SameCount == Mailbox!Cardinality(Occupants) = Cardinality(Occupants)
BY DEF Mailbox!Cardinality, Cardinality

(* What takes a step to the mailboxes' Open. *)
LEMMA OpenStep ==
  ASSUME NEW c \in Clients, c \notin Occupants \cup Gone \cup Refused,
         Cardinality(Occupants) < MaxEvc, Occupants' = Occupants \cup {c},
         UNCHANGED <<life, pending>>
  PROVE  Mailbox!Next
<1>1. Mailbox!Open(c)
  BY SameCount DEF Mailbox!Open, Mailbox!Unused, Occupants, Gone, Refused
<1> QED BY <1>1 DEF Mailbox!Next

(* And to Refuse. *)
LEMMA RefuseStep ==
  ASSUME NEW c \in Clients, c \notin Occupants \cup Gone \cup Refused,
         Cardinality(Occupants) = MaxEvc, Refused' = Refused \cup {c},
         UNCHANGED <<Occupants, Gone, pending>>
  PROVE  Mailbox!Next
<1>1. Mailbox!Refuse(c)
  BY SameCount DEF Mailbox!Refuse, Mailbox!Unused, Occupants, Gone, Refused
<1> QED BY <1>1 DEF Mailbox!Next

(* Every step is one of the mailboxes, or changes nothing of them. *)
LEMMA MailboxStep ==
  ASSUME IInv, IInv', EventIInv, FullSeen, [Next]_vars PROVE [Mailbox!Next]_(Mailbox!vars)
<1> USE NoClientAssumption DEF IInv, TypeOK
<1>s. ASSUME Same PROVE UNCHANGED Mailbox!vars
  BY <1>s DEF Same, Mailbox!vars, Occupants, Gone, Refused
<1>1. CASE \E t \in Threads : Continue(t)
  <2> PICK t \in Threads : Continue(t)
    BY <1>1
  <2>1. CASE InitMark(t) \/ InitWipe(t)
    BY <2>1 DEF InitMark, InitWipe, ArrayReady
  <2>2. CASE InitStore(t)
    <3>1. /\ sge_evc' = [sge_evc EXCEPT ![idx[t]] = target[t]] /\ UNCHANGED <<pending, life>>
          /\ idx[t] \in Slots /\ sge_evc[idx[t]] = NoClient
      BY <2>2 DEF InitStore, InitCalls, clientVars
    <3>2. target[t] \in Clients /\ target[t] \notin Occupants \cup Gone \cup Refused
      BY <2>2, NewcomerOutside DEF InitStore, InitPcs
    <3>3. Cardinality(Occupants) < MaxEvc
      BY <3>1, CapacityReached
    <3>4. Occupants' = Occupants \cup {target[t]}
      BY <3>1, <3>2 DEF Occupants
    <3> QED BY <3>1, <3>2, <3>3, <3>4, OpenStep
  <2>3. CASE InitReturn(t)
    <3>0. /\ UNCHANGED <<sge_evc, pending>> /\ pc[t] = "init_unlock"
          /\ life' = [life EXCEPT ![target[t]] = IF idx[t] \in Slots THEN "open" ELSE "refused"]
          /\ life[target[t]] = "created" /\ target[t] \in Clients
      BY <2>3 DEF InitReturn, ValidIndex, InitCalls, InitPcs
    <3>1. CASE idx[t] \in Slots
      BY <3>0, <3>1, <1>s, SameUnless
    <3>2. CASE idx[t] \notin Slots
      <4>1. idx[t] = NoIndex
        BY <3>2
      <4>2. target[t] \notin Occupants \cup Gone \cup Refused
        BY <3>0, <4>1, NewcomerOutside DEF InitPcs
      <4>3. Cardinality(Occupants) = MaxEvc
        BY <3>0, <4>1, CapacityReached DEF FullSeen
      <4>4. Refused' = Refused \cup {target[t]} /\ Gone' = Gone /\ Occupants' = Occupants
        BY <3>0, <3>2 DEF Refused, Gone, Occupants
      <4> QED BY <3>0, <4>2, <4>3, <4>4, RefuseStep
    <3> QED BY <3>1, <3>2
  <2>4. CASE CloseElem(t)
    <3>1. PICK c \in Clients :
            /\ idx[t] \in Slots /\ sge_evc[idx[t]] = c
            /\ sge_evc' = [sge_evc EXCEPT ![idx[t]] = NoClient]
            /\ life' = [life EXCEPT ![c] = "destroyed"] /\ UNCHANGED pending
      BY <2>4 DEF CloseElem, Locked, ValidIndex
    <3>2. Occupants' = Occupants \ {c}
      <4>1. ASSUME NEW d \in Clients, d # c, NEW i \in Slots, sge_evc[i] = d PROVE sge_evc'[i] = d
        BY <3>1, <4>1
      <4>2. \A i \in Slots : sge_evc'[i] # c
        BY <3>1, SlotsInjective
      <4>3. \A i \in Slots : sge_evc'[i] \in {sge_evc[i], NoClient}
        BY <3>1
      <4> QED BY <4>1, <4>2, <4>3 DEF Occupants
    <3>3. c \in Occupants
      BY <3>1 DEF Occupants
    <3>4. life[c] # "refused"
      BY <3>1 DEF SlotsNotLeaked, InitCalls, InitPcs
    <3>5. Gone' = Gone \cup {c} /\ Refused' = Refused
      BY <3>1, <3>4 DEF Gone, Refused
    <3>6. Mailbox!Close(c)
      BY <3>1, <3>2, <3>3, <3>5 DEF Mailbox!Close, Occupants, Gone, Refused
    <3> QED BY <3>6 DEF Mailbox!Next
  <2>5. CASE FillWait(t) \/ FillResume(t) \/ FillGot(t)
    <3>1. CASE Same
      BY <1>s, <3>1
    <3>2. ASSUME NEW c \in Occupants, pending' = [pending EXCEPT ![c] = {}],
                 Occupants' = Occupants, Gone' = Gone, Refused' = Refused
          PROVE  Mailbox!Next
      <4>1. Mailbox!Take(c)
        BY <3>2 DEF Mailbox!Take, Occupants, Gone, Refused
      <4> QED BY <4>1 DEF Mailbox!Next, Occupants
    <3> QED BY <2>5, <3>1, <3>2, TakeStep
  <2>6. CASE LockRefused(t) \/ InitCheck(t) \/ InitLock(t) \/ InitScan(t) \/ CloseLock(t)
             \/ CloseReturn(t) \/ InterruptNative(t) \/ RegisterNative(t) \/ SetFlushNative(t)
             \/ SubscribeNative(t) \/ GetFlushNative(t) \/ CommitNative(t) \/ FillGet(t)
             \/ FillProcess(t) \/ FillAck(t)
    <3>1. UNCHANGED <<sge_evc, pending, life>>
      BY <2>6 DEF LockRefused, InitCheck, InitLock, InitScan, CloseLock, CloseReturn,
         InterruptNative, RegisterNative, SetFlushNative, SubscribeNative, GetFlushNative, CommitNative,
         Configure, FillGet, FillProcess, FillAck, slotVars, clientVars
    <3> QED BY <3>1, <1>s, SameUnless
  <2> QED BY <2>1, <2>2, <2>3, <2>4, <2>5, <2>6 DEF Continue
<1>2. CASE \E t \in Threads : Start(t) \/ SpuriousWakeup(t)
  <2>1. /\ UNCHANGED <<sge_evc, pending>>
        /\ \A c \in Clients : life'[c] = life[c] \/ {life[c], life'[c]} \cap {"destroyed", "refused"} = {}
    BY <1>2 DEF Start, InitNative, InitNativeFails, Call, Enter, SpuriousWakeup, slotVars,
       clientVars
  <2> QED BY <2>1, <1>s, SameUnless
<1>3. CASE UpdateSkip \/ \E c \in Clients, b \in SUBSET Unsent : Update(c, b)
  <2>1. UNCHANGED <<sge_evc, pending, life>>
    BY <1>3 DEF UpdateSkip, Update, slotVars, clientVars
  <2> QED BY <2>1, <1>s, SameUnless
<1>4. CASE UpdateSignal
  <2>0. /\ mClient \in Clients /\ sge_evc[mSlot] = mClient /\ UNCHANGED <<sge_evc, life>>
        /\ mBatch \in SUBSET Events
    BY <1>4 DEF UpdateSignal, slotVars
  <2>1. CASE UNCHANGED pending
    BY <2>0, <2>1, <1>s, SameUnless
  <2>2. CASE pending' = [pending EXCEPT ![mClient] = @ \cup mBatch]
    <3>1. Mailbox!Post(mClient, mBatch)
      BY <2>0, <2>2 DEF Mailbox!Post
    <3> QED BY <2>0, <3>1 DEF Mailbox!Next
  <2> QED BY <1>4, <2>1, <2>2 DEF UpdateSignal
<1>5. ASSUME NEW c \in Clients, NEW b \in SUBSET Unsent, RemoteReport(c, b)
      PROVE  [Mailbox!Next]_(Mailbox!vars)
  <2>0. UNCHANGED <<sge_evc, life>> /\ b \in SUBSET Events
    BY <1>5 DEF RemoteReport, slotVars, Unsent
  <2>1. CASE life[c] = "destroyed"
    <3>1. UNCHANGED pending
      BY <1>5, <2>1 DEF RemoteReport
    <3> QED BY <2>0, <3>1, <1>s, SameUnless
  <2>2. CASE life[c] # "destroyed"
    <3>1. pending' = [pending EXCEPT ![c] = @ \cup b] /\ c \in registry
      BY <1>5, <2>2 DEF RemoteReport
    <3>2. \E i \in Slots : sge_evc[i] = c
      BY <2>2, <3>1 DEF EventIInv, ScanKnown, Found
    <3>3. Mailbox!Post(c, b)
      BY <2>0, <3>1, <3>2 DEF Mailbox!Post
    <3> QED BY <2>0, <3>3 DEF Mailbox!Next
  <2> QED BY <2>1, <2>2
<1>6. CASE UNCHANGED vars
  <2>1. UNCHANGED <<sge_evc, pending, life>>
    BY <1>6 DEF vars, slotVars, clientVars
  <2> QED BY <2>1, <1>s, SameUnless
<1> QED BY <1>1, <1>2, <1>3, <1>4, <1>5, <1>6 DEF Next, Master

(* ImplementsMailbox: every run of the natives and of the delivery thread, *)
(* whatever the number of slots, is a run of the mailboxes.                *)
THEOREM MailboxImplemented == Spec => ImplementsMailbox
<1>1. Init => Mailbox!Init
  BY NoClientAssumption DEF Init, InitWith, Mailbox!Init
<1>2. Init => FullSeen
  BY DEF Init, InitWith, FullSeen
<1>3. IInv /\ IInv' /\ FullSeen /\ [Next]_vars => FullSeen'
  BY FullSeenStep
<1>4. IInv /\ IInv' /\ EventIInv /\ FullSeen /\ [Next]_vars => [Mailbox!Next]_(Mailbox!vars)
  BY MailboxStep
<1> QED BY <1>1, <1>2, <1>3, <1>4, Invariance, EventInvariance, PTL
        DEF Spec, ImplementsMailbox, Mailbox!Spec

-----------------------------------------------------------------------------
(* From the load of the library: how far the race of the first initNative  *)
(* calls goes.                                                             *)

(* The library as it is loaded is well typed. *)
LEMMA StartupTypeInit == StartupInit => TypeOK
<1> SUFFICES ASSUME StartupInit PROVE TypeOK
  OBVIOUS
<1>1. is_evc_array_initialized \in BOOLEAN
  <2>1. is_evc_array_initialized = FALSE
    BY Zenon DEF StartupInit, InitWith
  <2> QED BY <2>1, Zenon
<1>2. idx \in [Threads -> Slots \cup {NoIndex}] /\ mSlot \in Slots
  BY MaxEvcAssumption DEF StartupInit, InitWith, Slots, NoIndex
<1>3. pc \in [Threads -> Pcs]
  BY PcsAre DEF StartupInit, InitWith
<1> QED BY <1>1, <1>2, <1>3 DEF StartupInit, InitWith, TypeOK

(* So is every state after it. *)
LEMMA StartupTyped == StartupSpec => []TypeOK
BY StartupTypeInit, TypeNext, PTL DEF StartupSpec

(* However the first calls of initNative race, no native returns with the  *)
(* global mutex held.                                                      *)
THEOREM StartupGivesMutexBack == StartupSpec => [](TypeOK /\ GlobalMutexHeldInside)
<1>1. StartupInit => GlobalMutexHeldInside
  BY NoThreadAssumption DEF StartupInit, InitWith, GlobalMutexHeldInside
<1>2. TypeOK /\ GlobalMutexHeldInside /\ [Next]_vars => GlobalMutexHeldInside'
  BY GlobalMutexStep
<1> QED BY <1>1, <1>2, StartupTyped, PTL DEF StartupSpec

(* One thread runs initEVCArray's loop, and none is past its test of the   *)
(* flag meanwhile, as if a mutex were held there.                          *)
OneStarts ==
  \A t, u \in Threads :
    pc[t] \in {"init_mark", "init_wipe"} /\ pc[u] \in InitPcs \ {"init_check"} => t = u

(* Nothing has been stored, sent or refused yet, and the natives that run  *)
(* are those of objects that have no client.                               *)
StartPcs == {"idle", "init_check", "init_mark", "init_wipe", "init_lock", "fill_wait"}
              \cup ShortOps \cup ClosePcs
Empty ==
  /\ sge_evc = [i \in Slots |-> NoClient]
  /\ registry = {} /\ mClient = NoClient /\ mBatch = {}
  /\ pending = [c \in Clients |-> {}] /\ elist = [t \in Threads |-> {}]
  /\ sent = [c \in Clients |-> {}] /\ delivered = [c \in Clients |-> {}]
  /\ dropped = {} /\ missed = {}
Newcomers ==
  /\ \A t \in Threads : pc[t] \in StartPcs
  /\ \A t \in Threads : pc[t] \in {"close_elem", "close_unlock"} => sge_evc_mutex = t
  /\ \A t \in Threads : pc[t] \in InitPcs =>
       target[t] \in Clients /\ life[target[t]] = "created"
  /\ \A t, u \in Threads :
       pc[t] \in InitPcs /\ pc[u] \in InitPcs /\ target[t] = target[u] => t = u
  /\ \A t \in Threads : pc[t] \in {"init_check", "init_mark", "init_lock"} => idx[t] = NoIndex
  /\ \A t \in Threads : pc[t] \in IndexPcs =>
       target[t] \in Clients /\ idx[t] = NoIndex /\ life[target[t]] = "failed"
  /\ \A c \in Clients : life[c] \in {"unborn", "created", "failed"} /\ handle[c] = NoIndex
  /\ \A t \in Threads : outcome[t] # "closed"
Starting ==
  /\ is_evc_array_initialized <=> \E t \in Threads : pc[t] = "init_wipe"
  /\ \A t \in Threads : pc[t] # "init_lock"

Fresh == TypeOK /\ Empty /\ Newcomers /\ Starting
Initialised == TypeOK /\ Empty /\ Newcomers /\ ArrayReady
Ready == IInv /\ EventIInv /\ FullSeen

(* With initEVCArray behind it, an empty table is ready. *)
LEMMA EmptyIsReady == ASSUME Initialised PROVE Ready
<1> USE NoClientAssumption DEF Initialised, Empty, Newcomers, StartPcs, ShortOps, ClosePcs
<1>1. MutexesHeld /\ InitCalls
  BY DEF MutexesHeld, InitCalls, GlobalPcs, InitPcs
<1>2. IndexCalls /\ HandlesGiven
  BY DEF IndexCalls, HandlesGiven, TypeOK
<1>3. OpenClientOwnsSlot /\ SlotsNotLeaked /\ RefusedMeansClosed /\ NoLostWakeup /\ WokenNotAtNull
  BY DEF OpenClientOwnsSlot, SlotsNotLeaked, RefusedMeansClosed, NoLostWakeup, WokenNotAtNull
<1>4. IInv
  BY <1>1, <1>2, <1>3 DEF IInv
<1>5. ScanKnown /\ BatchKnown /\ ElistKnown
  BY DEF ScanKnown, BatchKnown, ElistKnown
<1>6. MissedMeansDestroyed /\ ForeignEventsMeanDestroyed
  BY DEF MissedMeansDestroyed, ForeignEventsMeanDestroyed
<1>7. Accounted
  BY DEF Accounted, NowhereElse, Somewhere, Pending, InHand, Given
<1>8. FullSeen
  BY DEF FullSeen
<1> QED BY <1>4, <1>5, <1>6, <1>7, <1>8 DEF Ready, EventIInv

(* A thread that goes on leaves nothing in an empty table. *)
LEMMA FreshContinue ==
  ASSUME Fresh, TypeOK', OneStarts, OneStarts', NEW t \in Threads, Continue(t)
  PROVE  Fresh' \/ Initialised'
<1> USE NoClientAssumption, PcsAre
    DEF Fresh, Newcomers, Starting, StartPcs, ShortOps, ClosePcs, InitPcs, IndexPcs, LockPcs,
        FillPcs, TypeOK, Goto
<1>1. CASE LockRefused(t)
  <2>1. Empty'
    <3>1. elist' = [u \in Threads |-> {}]
      BY <1>1 DEF LockRefused, Result, Empty
    <3> QED BY <1>1, <3>1 DEF LockRefused, Empty, slotVars, clientVars, masterVars, histVars
  <2>2. ~ValidIndex(t)
    BY <1>1 DEF LockRefused, ValidIndex, NoIndex, Slots
  <2>3. Newcomers' /\ Starting'
    BY <1>1, <2>2 DEF LockRefused, Result, slotVars, clientVars
  <2> QED BY <2>1, <2>3
<1>2. CASE InitCheck(t)
  <2>1. Empty'
    BY <1>2 DEF InitCheck, Empty, slotVars, clientVars, masterVars, histVars
  <2>2. CASE is_evc_array_initialized
    <3>1. PICK u \in Threads : pc[u] = "init_wipe"
      BY <2>2
    <3>2. pc'[u] = "init_wipe" /\ pc'[t] = "init_lock"
      BY <1>2, <2>2, <3>1 DEF InitCheck
    <3> QED BY <3>1, <3>2, <1>2 DEF OneStarts, InitCheck
  <2>3. CASE ~is_evc_array_initialized
    <3>1. pc' = [pc EXCEPT ![t] = "init_mark"] /\ pc[t] = "init_check"
      BY <1>2, <2>3 DEF InitCheck
    <3>2. Newcomers' /\ Starting'
      BY <1>2, <2>3, <3>1 DEF InitCheck, slotVars, clientVars
    <3> QED BY <2>1, <3>2
  <2> QED BY <2>2, <2>3
<1>3. CASE InitMark(t)
  <2>1. Empty'
    BY <1>3 DEF InitMark, Empty, clientVars, masterVars, histVars
  <2>2. Newcomers' /\ Starting'
    BY <1>3 DEF InitMark, clientVars
  <2> QED BY <2>1, <2>2
<1>4. CASE InitWipe(t)
  <2>1. Empty'
    BY <1>4 DEF InitWipe, Empty, clientVars, masterVars, histVars
  <2>2. Newcomers'
    BY <1>4 DEF InitWipe, clientVars
  <2>3. \A u \in Threads : u # t => pc[u] \notin {"init_mark", "init_wipe"}
    BY <1>4 DEF InitWipe, OneStarts
  <2>4. is_evc_array_initialized /\ is_evc_array_initialized' = is_evc_array_initialized
    BY <1>4 DEF InitWipe
  <2>5. CASE idx[t] + 1 \in Slots
    <3>1. Starting'
      BY <1>4, <2>4, <2>5 DEF InitWipe
    <3> QED BY <2>1, <2>2, <3>1
  <2>6. CASE idx[t] + 1 \notin Slots
    <3>1. ArrayReady'
      BY <1>4, <2>3, <2>4, <2>6 DEF InitWipe, ArrayReady
    <3> QED BY <2>1, <2>2, <3>1 DEF Initialised
  <2> QED BY <2>5, <2>6
<1>5. CASE CloseLock(t)
  <2>1. Empty'
    BY <1>5 DEF CloseLock, Empty, clientVars, masterVars, histVars
  <2>2. Newcomers' /\ Starting'
    BY <1>5, NoThreadAssumption DEF CloseLock, clientVars
  <2> QED BY <2>1, <2>2
<1>6. CASE CloseReturn(t)
  <2>1. Empty'
    BY <1>6 DEF CloseReturn, Empty, clientVars, masterVars, histVars
  <2>2. Newcomers' /\ Starting'
    BY <1>6 DEF CloseReturn, clientVars
  <2> QED BY <2>1, <2>2
<1>7. ~(InitLock(t) \/ InitScan(t) \/ InitStore(t) \/ InitReturn(t) \/ FillResume(t) \/ FillGot(t) \/ FillProcess(t))
  BY DEF InitLock, InitScan, InitStore, InitReturn, FillResume, FillGot, FillProcess
<1>8. ~(CloseElem(t) \/ InterruptNative(t) \/ RegisterNative(t) \/ SetFlushNative(t)
        \/ SubscribeNative(t) \/ GetFlushNative(t) \/ CommitNative(t) \/ FillWait(t)
        \/ FillGet(t) \/ FillAck(t))
  BY DEF CloseElem, InterruptNative, RegisterNative, SetFlushNative, SubscribeNative, Configure,
     GetFlushNative, CommitNative, FillWait, FillGet, FillAck, Locked, ValidIndex, NoIndex, Slots
<1> QED BY <1>1, <1>2, <1>3, <1>4, <1>5, <1>6, <1>7, <1>8 DEF Continue

(* Nor does a call, and there is nothing for the delivery thread to do. *)
LEMMA FreshStep ==
  ASSUME Fresh, TypeOK', OneStarts, OneStarts', [Next]_vars PROVE Fresh' \/ Initialised'
<1> USE NoClientAssumption
    DEF Fresh, Newcomers, Starting, StartPcs, ShortOps, ClosePcs, InitPcs, IndexPcs, LockPcs,
        FillPcs, TypeOK, Goto
<1>1. CASE \E t \in Threads : Continue(t)
  BY <1>1, FreshContinue
<1>2. ASSUME NEW t \in Threads, NEW c \in Clients, InitNative(t, c) PROVE Fresh'
  <2>1. Empty'
    BY <1>2 DEF InitNative, Enter, Empty, slotVars, masterVars, histVars
  <2>2. Newcomers' /\ Starting'
    BY <1>2 DEF InitNative, Enter, slotVars
  <2> QED BY <2>1, <2>2
<1>3. ASSUME NEW t \in Threads, NEW c \in Clients, InitNativeFails(t, c) PROVE Fresh'
  <2>1. Empty'
    BY <1>3 DEF InitNativeFails, Empty, slotVars, masterVars, histVars
  <2>2. Newcomers' /\ Starting'
    BY <1>3 DEF InitNativeFails, slotVars
  <2> QED BY <2>1, <2>2
<1>4. ASSUME NEW t \in Threads, NEW c \in Clients, NEW op \in CallPcs, Call(t, c, op) PROVE Fresh'
  <2>1. Empty'
    BY <1>4 DEF Call, Enter, Empty, slotVars, clientVars, masterVars, histVars
  <2>2. op \in {"interrupt", "register", "setFlush", "getFlush", "subscribe", "commit",
                "close", "fill_wait"} /\ life[c] = "failed"
    BY <1>4 DEF CallPcs, Call
  <2>3. Newcomers' /\ Starting'
    BY <1>4, <2>2 DEF Call, Enter, slotVars, clientVars
  <2> QED BY <2>1, <2>3
<1>5. ~ \E t \in Threads : SpuriousWakeup(t)
  BY DEF SpuriousWakeup
<1>6. ~Master
  BY DEF Empty, Master, Update, UpdateSkip, UpdateSignal, RemoteReport
<1>7. CASE UNCHANGED vars
  <2>1. Empty'
    BY <1>7 DEF vars, Empty, slotVars, callVars, clientVars, masterVars, histVars
  <2>2. Newcomers' /\ Starting'
    BY <1>7 DEF vars, slotVars, callVars, clientVars
  <2> QED BY <2>1, <2>2
<1> QED BY <1>1, <1>2, <1>3, <1>4, <1>5, <1>6, <1>7 DEF Next, Start

(* A table that is ready stays so. *)
LEMMA ReadyStep == Ready /\ [Next]_vars => Ready'
BY IInvNext, FullSeenStep, ScanKeeps, BatchKeeps, ElistKeeps, AccountedKeeps, MissedKeeps,
   ForeignKeeps DEF Ready, EventIInv

(* If the first calls of initNative do not overlap, the table is empty     *)
(* until it is initialised, and from then on all is as from Init.          *)
THEOREM StartupInvariance == StartupSpec /\ []OneStarts => [](Fresh \/ Ready)
<1>1. StartupInit => Fresh
  <2> SUFFICES ASSUME StartupInit PROVE Fresh
    OBVIOUS
  <2>1. TypeOK
    BY StartupTypeInit
  <2>2. Empty
    BY DEF StartupInit, InitWith, Empty
  <2>3. Newcomers /\ Starting
    BY DEF StartupInit, InitWith, Newcomers, Starting, StartPcs, InitPcs, IndexPcs, LockPcs,
       ShortOps, FillPcs
  <2> QED BY <2>1, <2>2, <2>3 DEF Fresh
<1>2. Initialised => Ready
  BY EmptyIsReady
<1>3. /\ TypeOK' /\ OneStarts /\ OneStarts' /\ [Next]_vars
      /\ Fresh \/ Initialised \/ Ready
      => (Fresh \/ Initialised \/ Ready)'
  BY <1>2, FreshStep, ReadyStep
<1> QED BY <1>1, <1>2, <1>3, StartupTyped, PTL DEF StartupSpec

(* Then SlotsNotLeaked, MissedMeansDestroyed, OpenClientOwnsSlot and       *)
(* RefusedMeansClosed hold from the load of the library: the overlap of    *)
(* the first calls of initNative, in initEVCArray's unprotected flag, is   *)
(* the only thing that can break them.                                     *)
THEOREM StartupOnlyOverlapHurts ==
  StartupSpec /\ []OneStarts =>
    [](SlotsNotLeaked /\ MissedMeansDestroyed /\ OpenClientOwnsSlot /\ RefusedMeansClosed)
<1>1. Fresh => SlotsNotLeaked /\ MissedMeansDestroyed /\ OpenClientOwnsSlot /\ RefusedMeansClosed
  BY DEF Fresh, Empty, Newcomers, SlotsNotLeaked, MissedMeansDestroyed, OpenClientOwnsSlot,
     RefusedMeansClosed
<1>2. Ready => SlotsNotLeaked /\ MissedMeansDestroyed /\ OpenClientOwnsSlot /\ RefusedMeansClosed
  BY DEF Ready, IInv, EventIInv
<1> QED BY <1>1, <1>2, StartupInvariance, PTL

(* With one Java thread there is no such overlap.                          *)
THEOREM StartupOfOneThread ==
  ASSUME \A t, u \in Threads : t = u
  PROVE  StartupSpec => []SlotsNotLeaked /\ []MissedMeansDestroyed
<1>1. OneStarts
  BY DEF OneStarts
<1> QED BY <1>1, StartupOnlyOverlapHurts, PTL

(* While nothing is stored the mailboxes do not change. *)
LEMMA NothingPosted ==
  ASSUME Empty, Empty', Newcomers, Newcomers' PROVE UNCHANGED Mailbox!vars
<1>1. sge_evc' = sge_evc /\ pending' = pending
  BY DEF Empty
<1>2. ASSUME NEW c \in Clients
      PROVE  life[c] \notin {"destroyed", "refused"} /\ life'[c] \notin {"destroyed", "refused"}
  BY DEF Newcomers
<1> QED BY <1>1, <1>2 DEF Mailbox!vars

(* ImplementsMailbox from the load of the library, if the first calls of   *)
(* initNative do not overlap.                                              *)
THEOREM StartupImplementsMailbox == StartupSpec /\ []OneStarts => ImplementsMailbox
<1>1. StartupInit => Mailbox!Init
  BY NoClientAssumption DEF StartupInit, InitWith, Mailbox!Init
<1>2. ASSUME Fresh, Fresh' \/ Initialised' PROVE UNCHANGED Mailbox!vars
  BY <1>2, NothingPosted DEF Fresh, Initialised
<1>3. ASSUME Ready, Ready', [Next]_vars PROVE [Mailbox!Next]_(Mailbox!vars)
  BY <1>3, MailboxStep DEF Ready
<1>4. /\ TypeOK' /\ OneStarts /\ OneStarts' /\ [Next]_vars
      /\ Fresh \/ Ready
      => [Mailbox!Next]_(Mailbox!vars)
  BY <1>2, <1>3, FreshStep, ReadyStep
<1> QED BY <1>1, <1>4, StartupInvariance, StartupTyped, PTL
        DEF StartupSpec, ImplementsMailbox, Mailbox!Spec

-----------------------------------------------------------------------------
(* What is left of ClosedIsRefused, which reuse of a slot breaks.          *)

(* What is destroyed was in a slot, and its object still has the index. *)
DestroyedHadSlot == \A c \in Clients : life[c] = "destroyed" => handle[c] \in Slots

(* closeNative destroys open clients only: initNative cannot be between    *)
(* its scan and its return, since both hold the global mutex.              *)
LEMMA OpenWhenClosed ==
  ASSUME IInv, NEW t \in Threads, pc[t] = "close_elem",
         NEW c \in Clients, NEW i \in Slots, sge_evc[i] = c
  PROVE  life[c] = "open" /\ handle[c] = i
<1>1. sge_evc_mutex = t
  BY DEF IInv, MutexesHeld, GlobalPcs
<1>2. ASSUME NEW u \in Threads, pc[u] = "init_unlock" PROVE FALSE
  <2>1. sge_evc_mutex = u
    BY <1>2 DEF IInv, MutexesHeld, GlobalPcs
  <2> QED BY <1>1, <1>2, <2>1
<1> QED BY <1>2, NoClientAssumption DEF IInv, SlotsNotLeaked

(* A client becomes destroyed in closeNative, or was so. *)
LEMMA HadSlotStep ==
  ASSUME IInv, DestroyedHadSlot, [Next]_vars PROVE DestroyedHadSlot'
<1> SUFFICES ASSUME NEW c \in Clients, life'[c] = "destroyed" PROVE handle'[c] \in Slots
  BY DEF DestroyedHadSlot
<1> USE DEF DestroyedHadSlot
<1>a. life \in [Clients -> {"unborn", "created", "open", "failed", "refused", "destroyed"}]
      /\ handle \in [Clients -> Slots \cup {NoIndex}]
  BY DEF IInv, TypeOK
<1>1. CASE UNCHANGED <<life, handle>>
  BY <1>1
<1>2. ASSUME NEW t \in Threads, NEW d \in Clients, InitNative(t, d) \/ InitNativeFails(t, d)
      PROVE  handle'[c] \in Slots
  <2>1. life'[c] = "destroyed" => life[c] = "destroyed"
    BY <1>2, <1>a DEF InitNative, InitNativeFails
  <2> QED BY <1>2, <2>1 DEF InitNative, InitNativeFails
<1>3. ASSUME NEW t \in Threads, InitReturn(t) PROVE handle'[c] \in Slots
  <2>1. life'[target[t]] \in {"open", "refused"} /\ target[t] \in Clients
    BY <1>3, <1>a DEF InitReturn, IInv, InitCalls, InitPcs
  <2>2. c # target[t]
    BY <2>1
  <2> QED BY <1>3, <1>a, <2>2 DEF InitReturn
<1>4. ASSUME NEW t \in Threads, CloseElem(t) PROVE handle'[c] \in Slots
  <2>1. PICK d \in Clients : Locked(t, d) /\ life' = [life EXCEPT ![d] = "destroyed"]
    BY <1>4 DEF CloseElem
  <2>2. pc[t] = "close_elem" /\ UNCHANGED handle
    BY <1>4 DEF CloseElem
  <2>3. handle[d] \in Slots
    BY <2>1, <2>2, OpenWhenClosed DEF Locked, ValidIndex
  <2> QED BY <1>a, <2>1, <2>2, <2>3
<1>5. ASSUME NEW t \in Threads, Continue(t), ~InitReturn(t), ~CloseElem(t)
      PROVE  UNCHANGED <<life, handle>>
  BY <1>5 DEF Continue, LockRefused, InitCheck, InitMark, InitWipe, InitLock, InitScan, InitStore, CloseLock,
     CloseReturn, InterruptNative, RegisterNative, SetFlushNative, SubscribeNative, Configure,
     GetFlushNative, CommitNative, FillWait, FillResume, FillGet, FillGot, FillProcess, FillAck,
     clientVars
<1>6. ASSUME \/ \E t \in Threads, d \in Clients, op \in CallPcs : Call(t, d, op)
             \/ \E t \in Threads : SpuriousWakeup(t)
             \/ Master
             \/ UNCHANGED vars
      PROVE  UNCHANGED <<life, handle>>
  BY <1>6 DEF Call, SpuriousWakeup, Master, Update, UpdateSkip, UpdateSignal, RemoteReport, vars,
     clientVars
<1> QED BY <1>1, <1>2, <1>3, <1>4, <1>5, <1>6 DEF Next, Start

(* What a thread that is about to lock a slot does when it gets it. *)
LEMMA LockTaken ==
  ASSUME IInv, NEW t \in Threads, pc[t] \in LockPcs, pc'[t] # pc[t], [Next]_vars
  PROVE  \/ LockRefused(t)
         \/ \E c \in Clients : Locked(t, c)
<1> USE DEF LockPcs, ShortOps
<1>a. pc \in [Threads -> Pcs]
  BY DEF IInv, TypeOK
<1>w. ASSUME NEW i \in Slots PROVE Woken(i)[t] = pc[t]
  BY DEF Woken
<1>1. ASSUME NEW u \in Threads, Start(u) \/ SpuriousWakeup(u) PROVE FALSE
  <2>1. PICK place : pc' = [pc EXCEPT ![u] = place] \/ UNCHANGED pc
    BY <1>1 DEF Start, InitNative, InitNativeFails, Call, SpuriousWakeup, Enter, Goto
  <2>2. pc[u] \in {"idle", "fill_cond"}
    BY <1>1 DEF Start, InitNative, InitNativeFails, Call, SpuriousWakeup, Enter
  <2> QED BY <1>a, <2>1, <2>2
<1>2. ASSUME NEW u \in Threads, Continue(u), u # t PROVE FALSE
  <2>1. PICK i, place : pc' = [pc EXCEPT ![u] = place] \/ pc' = [Woken(i) EXCEPT ![u] = place]
    BY <1>2 DEF Continue, LockRefused, InitCheck, InitMark, InitWipe, InitLock, InitScan, InitStore,
       InitReturn, CloseLock, CloseElem, CloseReturn, InterruptNative, RegisterNative,
       SetFlushNative, SubscribeNative, Configure, GetFlushNative, CommitNative, FillWait,
       FillResume, FillGet, FillGot, FillProcess, FillAck, WaitTurn, Return, Goto
  <2> QED BY <1>2, <1>a, <2>1 DEF Woken
<1>3. CASE Master \/ UNCHANGED vars
  <2>1. UNCHANGED pc \/ pc' = Woken(mSlot)
    BY <1>3 DEF Master, Update, UpdateSkip, UpdateSignal, RemoteReport, vars, callVars
  <2> QED BY <2>1 DEF Woken
<1>4. CASE Continue(t)
  BY <1>4, InternalAssumption DEF Continue, InitCheck, InitMark, InitWipe, InitLock, InitScan, InitStore,
     InitReturn, CloseLock, CloseElem, CloseReturn, InterruptNative, RegisterNative,
     SetFlushNative, SubscribeNative, Configure, GetFlushNative, CommitNative, FillWait,
     FillResume, FillGet, FillGot, FillProcess, FillAck
<1> QED BY <1>1, <1>2, <1>3, <1>4 DEF Next

(* RefusedUnlessReused: a native called for a closed client is refused as  *)
(* closed or finds another client in its slot.                             *)
THEOREM OnlyReuseServesTheClosed == Spec => RefusedUnlessReused
<1>1. Init => DestroyedHadSlot
  BY DEF Init, InitWith, DestroyedHadSlot
<1>2. ASSUME IInv, DestroyedHadSlot, [Next]_vars,
             NEW t \in Threads, pc[t] \in LockPcs, pc'[t] # pc[t], life[target[t]] = "destroyed"
      PROVE  outcome'[t] = "closed" \/ sge_evc[idx[t]] \in Clients \ {target[t]}
  <2>1. target[t] \in Clients /\ idx[t] = handle[target[t]]
    BY <1>2 DEF IInv, IndexCalls, IndexPcs
  <2>2. idx[t] \in Slots
    BY <1>2, <2>1 DEF DestroyedHadSlot
  <2>3. CASE LockRefused(t)
    <3>1. outcome' = [outcome EXCEPT ![t] = "closed"]
      BY <2>2, <2>3 DEF LockRefused, ValidIndex, Result
    <3> QED BY <3>1, <1>2 DEF IInv, TypeOK
  <2>4. CASE \E c \in Clients : Locked(t, c)
    <3>1. PICK c \in Clients : sge_evc[idx[t]] = c
      BY <2>4 DEF Locked
    <3>2. life[c] # "destroyed"
      BY <1>2, <2>2, <3>1, OccupantsLive
    <3> QED BY <1>2, <3>1, <3>2
  <2> QED BY <1>2, <2>3, <2>4, LockTaken
<1>3. IInv /\ DestroyedHadSlot /\ [Next]_vars => DestroyedHadSlot'
  BY HadSlotStep
<1>4. IInv /\ DestroyedHadSlot /\ [Next]_vars =>
        \A t \in Threads :
          pc[t] \in LockPcs /\ pc'[t] # pc[t] /\ life[target[t]] = "destroyed"
            => outcome'[t] = "closed" \/ sge_evc[idx[t]] \in Clients \ {target[t]}
  BY <1>2
<1> QED BY <1>1, <1>3, <1>4, Invariance, PTL DEF Spec, RefusedUnlessReused

-----------------------------------------------------------------------------
(* Nobody waits in a circle for the mutexes.                               *)

(* Only waitEVC of a client outside qmaster keeps a slot's mutex, for the  *)
(* time of ec_get.                                                         *)
LEMMA SlotHeldStep ==
  ASSUME TypeOK, SlotHeldInGet, [Next]_vars PROVE SlotHeldInGet'
<1> USE NoThreadAssumption DEF SlotHeldInGet, TypeOK
<1>1. ASSUME NEW t \in Threads, FillGet(t) PROVE SlotHeldInGet'
  BY <1>1 DEF FillGet, Goto
<1>2. ASSUME NEW t \in Threads, FillGot(t) PROVE SlotHeldInGet'
  BY <1>2 DEF FillGot, Goto
<1>3. ASSUME NEW t \in Threads, InitWipe(t) PROVE SlotHeldInGet'
  BY <1>3 DEF InitWipe, Goto
<1>4. ASSUME elem_mutex' = elem_mutex,
             \A u \in Threads : pc[u] = "fill_get" => pc'[u] = "fill_get" /\ idx'[u] = idx[u]
      PROVE  SlotHeldInGet'
  BY <1>4
<1>w. ASSUME NEW u \in Threads, pc[u] = "fill_get", NEW i \in Slots PROVE Woken(i)[u] = "fill_get"
  BY <1>w DEF Woken
<1>5. ASSUME NEW t \in Threads, Continue(t), ~FillGet(t), ~FillGot(t), ~InitWipe(t)
      PROVE  SlotHeldInGet'
  <2>0. elem_mutex' = elem_mutex
    BY <1>5 DEF Continue, LockRefused, InitCheck, InitMark, InitLock, InitScan, InitStore, InitReturn,
       CloseLock, CloseElem, CloseReturn, InterruptNative, RegisterNative, SetFlushNative,
       SubscribeNative, Configure, GetFlushNative, CommitNative, FillWait, FillResume,
       FillProcess, FillAck, slotVars
  <2>1. pc[t] # "fill_get"
    BY <1>5 DEF Continue, LockRefused, InitCheck, InitMark, InitLock, InitScan, InitStore, InitReturn,
       CloseLock, CloseElem, CloseReturn, InterruptNative, RegisterNative, SetFlushNative,
       SubscribeNative, GetFlushNative, CommitNative, FillWait, FillResume,
       FillProcess, FillAck, LockPcs, ShortOps
  <2>2. \A u \in Threads : u # t => idx'[u] = idx[u]
    <3>1. PICK i : idx' = idx \/ idx' = [idx EXCEPT ![t] = i]
      BY <1>5 DEF Continue, LockRefused, InitCheck, InitMark, InitLock, InitScan, InitStore, InitReturn,
         CloseLock, CloseElem, CloseReturn, InterruptNative, RegisterNative, SetFlushNative,
         SubscribeNative, Configure, GetFlushNative, CommitNative, FillWait, FillResume,
         FillProcess, FillAck, Return, Result
    <3> QED BY <3>1
  <2>3. PICK i, place : pc' = [pc EXCEPT ![t] = place] \/ pc' = [Woken(i) EXCEPT ![t] = place]
    BY <1>5 DEF Continue, LockRefused, InitCheck, InitMark, InitLock, InitScan, InitStore,
       InitReturn, CloseLock, CloseElem, CloseReturn, InterruptNative, RegisterNative,
       SetFlushNative, SubscribeNative, Configure, GetFlushNative, CommitNative, FillWait,
       FillResume, FillProcess, FillAck, WaitTurn, Return, Goto
  <2>4. \A u \in Threads : u # t /\ pc[u] = "fill_get" => pc'[u] = "fill_get"
    <3> SUFFICES ASSUME NEW u \in Threads, u # t, pc[u] = "fill_get" PROVE pc'[u] = "fill_get"
      OBVIOUS
    <3>1. Woken(i)[u] = "fill_get" /\ DOMAIN Woken(i) = Threads
      BY DEF Woken
    <3>2. pc'[u] = pc[u] \/ pc'[u] = Woken(i)[u]
      BY <2>3, <3>1
    <3> QED BY <3>1, <3>2
  <2> QED BY <1>4, <2>0, <2>1, <2>2, <2>4
<1>6. ASSUME NEW t \in Threads, Start(t) \/ SpuriousWakeup(t) PROVE SlotHeldInGet'
  <2>1. elem_mutex' = elem_mutex
    BY <1>6 DEF Start, InitNative, InitNativeFails, Call, SpuriousWakeup, slotVars
  <2>2. \A u \in Threads : pc[u] = "fill_get" => pc'[u] = "fill_get" /\ idx'[u] = idx[u]
    BY <1>6 DEF Start, InitNative, InitNativeFails, Call, SpuriousWakeup, Enter, Goto
  <2> QED BY <1>4, <2>1, <2>2
<1>7. CASE Master \/ UNCHANGED vars
  <2>1. elem_mutex' = elem_mutex /\ idx' = idx /\ (pc' = pc \/ pc' = Woken(mSlot))
    BY <1>7 DEF Master, Update, UpdateSkip, UpdateSignal, RemoteReport, vars, slotVars, callVars
  <2> QED BY <1>4, <2>1, <1>w
<1> QED BY <1>1, <1>2, <1>3, <1>5, <1>6, <1>7 DEF Next

(* The two levels: who is in ec_get waits for no mutex, and who has        *)
(* sge_evc_mutex waits for a slot's at most.                               *)
LEMMA TwoLevels ==
  ASSUME GlobalMutexHeldInside, SlotHeldInGet PROVE NoCircularWait
<1> SUFFICES ASSUME NEW S \in SUBSET Threads, S # {}
             PROVE  \E t \in S : \A u \in S : ~WaitsFor(t, u)
  BY DEF NoCircularWait
<1>1. CASE \E t \in S : pc[t] = "fill_get"
  <2> PICK t \in S : pc[t] = "fill_get"
    BY <1>1
  <2>1. \A u \in S : ~WaitsFor(t, u)
    BY DEF WaitsFor, WantsGlobal, WantsSlot, LockPcs, ShortOps
  <2> QED BY <2>1
<1>2. CASE \A t \in S : pc[t] # "fill_get"
  <2>1. \A i \in Slots : elem_mutex[i] \notin S
    BY <1>2 DEF SlotHeldInGet
  <2>2. CASE \E t \in S : sge_evc_mutex = t
    <3> PICK t \in S : sge_evc_mutex = t
      BY <2>2
    <3>1. ~WantsGlobal(t)
      BY DEF GlobalMutexHeldInside, GlobalPcs, WantsGlobal
    <3> QED BY <2>1, <3>1 DEF WaitsFor
  <2>3. CASE sge_evc_mutex \notin S
    BY <2>1, <2>3 DEF WaitsFor
  <2> QED BY <2>2, <2>3
<1> QED BY <1>1, <1>2

(* NoCircularWait, for any threads and slots, from an initialised table    *)
(* and from the load of the library: the natives that lock cannot all wait *)
(* for each other.                                                         *)
THEOREM LocksAreOrdered == Spec \/ StartupSpec => []NoCircularWait
<1>1. (Init => SlotHeldInGet) /\ (StartupInit => SlotHeldInGet)
  BY NoThreadAssumption DEF Init, StartupInit, InitWith, SlotHeldInGet
<1>2. TypeOK /\ SlotHeldInGet /\ [Next]_vars => SlotHeldInGet'
  BY SlotHeldStep
<1>3. GlobalMutexHeldInside /\ SlotHeldInGet => NoCircularWait
  BY TwoLevels
<1>4. Spec => []NoCircularWait
  BY <1>1, <1>2, <1>3, TypeCorrect, GlobalMutexIsGivenBack, PTL DEF Spec
<1>5. StartupSpec => []NoCircularWait
  BY <1>1, <1>2, <1>3, StartupGivesMutexBack, PTL DEF StartupSpec
<1> QED BY <1>4, <1>5
=============================================================================
