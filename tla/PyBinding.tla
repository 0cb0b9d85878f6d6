------------------------------ MODULE PyBinding ------------------------------
(***************************************************************************)
(* The Python module (pygdi.c, pygdi_common.c): getSGERoot, getQueues and  *)
(* getHosts, each with a GDI context of its own, and the references to the *)
(* objects they make and return.                                           *)
(*                                                                         *)
(* The functions never give up the interpreter lock, so that their callers *)
(* come one after the other; what is long is the series of calls.          *)
(***************************************************************************)
EXTENDS Integers

CONSTANTS
  Objects,    \* the lists and strings there can be
  Names,      \* the cluster queues or hosts qmaster may know
  None, NULL, \* Py_None, and no object
  NoneOthers, \* how many references to Py_None others hold from the start
  MaxCalls,   \* bound: how many calls there are
  MaxHeld     \* bound: how many references to one object a caller takes

ASSUME NullAssumption == None \notin Objects /\ NULL \notin Objects /\ None # NULL
ASSUME NoneAssumption == NoneOthers \in Nat \ {0}

ListFunctions == {"getQueues", "getHosts"}
Functions == {"getSGERoot"} \cup ListFunctions

VARIABLES
  pc,        \* where the call is, "idle" between calls, "dead" without Py_None
  fn,        \* the function called last
  result,    \* its result
  exception, \* whether a Python exception is set
  ctx,       \* whether the call's GDI context is open
  tls,       \* the thread's context: NULL, one that is open, or destroyed
  answer,    \* the names qmaster had for the request (external)
  failed,    \* whether the request failed (external)
  left,      \* the names of its answer not yet appended
  made,      \* what each object is: a function's result, a name in a list
  text,      \* the name a string holds
  items,     \* the strings in each list
  refs,      \* each object's ob_refcnt
  held,      \* the references to it that Python code holds (external)
  none_refs, none_held, \* the same of Py_None
  rootless,  \* calls of getSGERoot that gave neither a root nor an exception
  calls      \* the calls begun

callVars == <<fn, result, exception>>
ctxVars == <<ctx, tls>>
requestVars == <<answer, failed, left>>
heapVars == <<made, text, items, refs>>
noneVars == <<none_refs, none_held>>
vars == <<pc, callVars, ctxVars, requestVars, heapVars, held, noneVars, rootless, calls>>

TypeOK ==
  /\ pc \in {"init", "idle", "setup", "request", "append", "reset", "close", "return", "dead"}
  /\ fn \in Functions
  /\ result \in Objects \cup {None, NULL}
  /\ exception \in BOOLEAN
  /\ ctx \in BOOLEAN
  /\ tls \in {"NULL", "open", "destroyed"}
  /\ answer \subseteq Names /\ left \subseteq Names
  /\ failed \in BOOLEAN
  /\ made \in [Objects -> Functions \cup {"name", "nothing"}]
  /\ text \in [Objects -> Names \cup {NULL}]
  /\ items \in [Objects -> SUBSET Objects]
  /\ refs \in [Objects -> Nat] /\ held \in [Objects -> Nat]
  /\ none_refs \in Nat /\ none_held \in Nat
  /\ rootless \in Nat /\ calls \in Nat

Init ==
  /\ pc = "init" /\ fn = "getSGERoot" /\ result = NULL /\ exception = FALSE
  /\ ctx = FALSE /\ tls = "NULL"
  /\ answer = {} /\ failed = FALSE /\ left = {}
  /\ made = [o \in Objects |-> "nothing"]
  /\ text = [o \in Objects |-> NULL]
  /\ items = [o \in Objects |-> {}]
  /\ refs = [o \in Objects |-> 0] /\ held = [o \in Objects |-> 0]
  /\ none_refs = NoneOthers /\ none_held = 0
  /\ rootless = 0 /\ calls = 0

(* init_pygdi: the module can be called, or is never there. *)
InitModule ==
  /\ pc = "init"
  /\ pc' = "idle"
  /\ UNCHANGED <<callVars, ctxVars, requestVars, heapVars, held, noneVars, rootless, calls>>

-----------------------------------------------------------------------------
(* References (external: Py_INCREF and Py_DECREF). *)

(* A new object, with count references. *)
New(o, what, count) ==
  /\ made[o] = "nothing"
  /\ made' = [made EXCEPT ![o] = what]
  /\ refs' = [refs EXCEPT ![o] = count]

(* A reference less; the last one takes an object's items with it. *)
Decref(o) ==
  /\ refs' = [x \in Objects |->
       IF x = o \/ (refs[o] = 1 /\ x \in items[o]) THEN refs[x] - 1 ELSE refs[x]]
  /\ items' = IF refs[o] = 1 THEN [items EXCEPT ![o] = {}] ELSE items
  /\ UNCHANGED <<made, text>>

(* The last reference to Py_None ends the interpreter. *)
DecrefNone(next) ==
  /\ none_refs' = none_refs - 1
  /\ pc' = IF none_refs = 1 THEN "dead" ELSE next

-----------------------------------------------------------------------------
(* A call.  getSGERoot's result is Py_None, of which it takes no reference. *)
Begin(f) ==
  /\ pc = "idle" /\ calls < MaxCalls
  /\ pc' = "setup" /\ fn' = f /\ exception' = FALSE
  /\ calls' = calls + 1
  /\ IF f = "getSGERoot"
     THEN result' = None /\ UNCHANGED heapVars
     ELSE \E l \in Objects : New(l, f, 1) /\ result' = l /\ UNCHANGED <<text, items>>
  /\ UNCHANGED <<ctxVars, requestVars, held, noneVars, rootless>>

(* getGDIContext, and the thread's context. *)
GetContext ==
  /\ pc = "setup"
  /\ ctx' = TRUE /\ tls' = "open"
  /\ pc' = "request"
  /\ UNCHANGED <<callVars, requestVars, heapVars, held, noneVars, rootless, calls>>

(* Faulty: getQueues leaves its list as getHosts does. *)
GetContextFails_NoDecref ==
  /\ pc = "setup"
  /\ IF fn = "getSGERoot" THEN DecrefNone("return") ELSE pc' = "return" /\ UNCHANGED none_refs
  /\ result' = NULL
  /\ UNCHANGED <<fn, exception, ctxVars, requestVars, heapVars, held, none_held, rootless, calls>>

(* Faulty: getQueues returns the list it has given up. *)
GetContextFails_ReturnsList ==
  /\ pc = "setup"
  /\ IF fn = "getSGERoot" THEN DecrefNone("return") ELSE pc' = "return" /\ UNCHANGED none_refs
  /\ IF fn = "getQueues" THEN Decref(result) /\ UNCHANGED result ELSE UNCHANGED heapVars /\ result' = NULL
  /\ UNCHANGED <<fn, exception, ctxVars, requestVars, held, none_held, rootless, calls>>

(* getGDIContext returns NULL: getSGERoot gives up a reference to Py_None, *)
(* getQueues its list, getHosts nothing.  Assumed of sge_gdi2_setup, which *)
(* is external: when it fails it has made no context, as nobody destroys   *)
(* one then (pygdi_common.c:76-80).                                        *)
GetContextFails ==
  /\ pc = "setup"
  /\ IF fn = "getSGERoot" THEN DecrefNone("return") ELSE pc' = "return" /\ UNCHANGED none_refs
  /\ IF fn = "getQueues" THEN Decref(result) ELSE UNCHANGED heapVars
  /\ result' = NULL
  /\ UNCHANGED <<fn, exception, ctxVars, requestVars, held, none_held, rootless, calls>>

(* Faulty: the result that is replaced is given up. *)
GetRoot_DropsNone ==
  /\ pc = "request" /\ fn = "getSGERoot"
  /\ DecrefNone("reset")
  /\ \E s \in Objects : New(s, fn, 1) /\ result' = s
  /\ UNCHANGED <<fn, exception, ctxVars, requestVars, text, items, held, none_held, rootless, calls>>

(* get_sge_root: a string, none, or one that cannot be made. *)
GetRoot ==
  /\ pc = "request" /\ fn = "getSGERoot"
  /\ \/ \E s \in Objects : New(s, fn, 1) /\ result' = s /\ UNCHANGED <<text, items, exception>>
     \/ UNCHANGED <<result, heapVars, exception>>
     \/ result' = NULL /\ exception' = TRUE /\ UNCHANGED heapVars
  /\ pc' = "reset"
  /\ UNCHANGED <<fn, ctxVars, requestVars, held, noneVars, rootless, calls>>

(* ctx->gdi.  Its answer list is freed unread: a request that failed is    *)
(* taken for one that found nothing.                                       *)
Request ==
  /\ pc = "request" /\ fn \in ListFunctions
  /\ answer' \in SUBSET Names
  /\ failed' \in BOOLEAN
  /\ left' = IF failed' THEN {} ELSE answer'
  /\ pc' = "append"
  /\ UNCHANGED <<callVars, ctxVars, heapVars, held, noneVars, rootless, calls>>

(* PyList_Append takes a reference of its own to the new string. *)
AppendName ==
  /\ pc = "append"
  /\ \E n \in left, s \in Objects :
       /\ New(s, "name", 2)
       /\ text' = [text EXCEPT ![s] = n]
       /\ items' = [items EXCEPT ![result] = @ \cup {s}]
       /\ left' = left \ {n}
  /\ UNCHANGED <<pc, callVars, ctxVars, answer, failed, held, noneVars, rootless, calls>>

(* Faulty: the error is cleared. *)
AppendFails_Clears ==
  /\ pc = "append"
  /\ \E n \in left : left' = left \ {n}
  /\ UNCHANGED <<pc, callVars, ctxVars, answer, failed, heapVars, held, noneVars, rootless, calls>>

(* The string cannot be made, or not be appended; nobody looks. *)
AppendFails ==
  /\ pc = "append"
  /\ \E n \in left :
       /\ left' = left \ {n}
       /\ \/ UNCHANGED heapVars
          \/ \E s \in Objects :
               New(s, "name", 1) /\ text' = [text EXCEPT ![s] = n] /\ UNCHANGED items
  /\ exception' = TRUE
  /\ UNCHANGED <<pc, fn, result, ctxVars, answer, failed, held, noneVars, rootless, calls>>

AppendEnds ==
  /\ pc = "append" /\ left = {}
  /\ pc' = "reset"
  /\ UNCHANGED <<callVars, ctxVars, requestVars, heapVars, held, noneVars, rootless, calls>>

(* Faulty: the thread keeps its context. *)
ResetLocal_Keeps ==
  /\ pc = "reset"
  /\ pc' = "close"
  /\ UNCHANGED <<callVars, ctxVars, requestVars, heapVars, held, noneVars, rootless, calls>>

ResetLocal ==
  /\ pc = "reset"
  /\ tls' = "NULL"
  /\ pc' = "close"
  /\ UNCHANGED <<callVars, ctx, requestVars, heapVars, held, noneVars, rootless, calls>>

(* closeGDIContext. *)
CloseContext ==
  /\ pc = "close"
  /\ ctx' = FALSE
  /\ tls' = IF tls = "open" THEN "destroyed" ELSE tls
  /\ pc' = "return"
  /\ UNCHANGED <<callVars, requestVars, heapVars, held, noneVars, rootless, calls>>

(* The interpreter has the result: a reference that is the caller's now. *)
Return ==
  /\ pc = "return"
  /\ pc' = "idle"
  /\ held' = IF result \in Objects THEN [held EXCEPT ![result] = @ + 1] ELSE held
  /\ none_held' = IF result = None THEN none_held + 1 ELSE none_held
  /\ rootless' = IF fn = "getSGERoot" /\ result \notin Objects /\ ~exception
                 THEN rootless + 1 ELSE rootless
  /\ result' = NULL
  /\ UNCHANGED <<fn, exception, ctxVars, requestVars, heapVars, none_refs, calls>>

-----------------------------------------------------------------------------
(* Python code, between the calls (external). *)

Reached(o) == held[o] > 0 \/ \E l \in Objects : held[l] > 0 /\ o \in items[l]

Take(o) ==
  /\ pc = "idle" /\ Reached(o) /\ held[o] < MaxHeld
  /\ held' = [held EXCEPT ![o] = @ + 1]
  /\ refs' = [refs EXCEPT ![o] = @ + 1]
  /\ UNCHANGED <<pc, callVars, ctxVars, requestVars, made, text, items, noneVars, rootless, calls>>

Drop(o) ==
  /\ pc = "idle" /\ held[o] > 0
  /\ held' = [held EXCEPT ![o] = @ - 1]
  /\ Decref(o)
  /\ UNCHANGED <<pc, callVars, ctxVars, requestVars, noneVars, rootless, calls>>

DropNone ==
  /\ pc = "idle" /\ none_held > 0
  /\ none_held' = none_held - 1
  /\ DecrefNone("idle")
  /\ UNCHANGED <<callVars, ctxVars, requestVars, heapVars, held, rootless, calls>>

Call ==
  \/ \E f \in Functions : Begin(f)
  \/ GetContext \/ GetContextFails
  \/ GetRoot \/ Request \/ AppendName \/ AppendFails \/ AppendEnds
  \/ ResetLocal \/ CloseContext \/ Return

Python == DropNone \/ \E o \in Objects : Take(o) \/ Drop(o)

Next == InitModule \/ Call \/ Python

Spec == Init /\ [][Next]_vars

-----------------------------------------------------------------------------
(* Properties. *)

(* The references to o that somebody has: Python code, a list, the call.   *)
Owners(o) ==
  held[o] + (IF \E l \in Objects : o \in items[l] THEN 1 ELSE 0) + (IF o = result THEN 1 ELSE 0)

(* No list and no string is freed while somebody has a reference, over any *)
(* series of calls.  None outlives its last one but the strings in a list, *)
(* of which PyString_FromString's own reference stays, and the empty list  *)
(* of a getHosts whose setup failed.                                       *)
RefsCounted ==
  \A o \in Objects : made[o] # "nothing" =>
    \/ refs[o] = Owners(o) /\ made[o] # "name"
    \/ refs[o] = Owners(o) + 1 /\ made[o] = "name"
    \/ refs[o] = 1 /\ Owners(o) = 0 /\ made[o] = "getHosts" /\ items[o] = {}

(* Py_None is short of exactly one reference for each getSGERoot that gave *)
(* its caller neither a root nor an exception; the interpreter does not    *)
(* lose it before there were as many of them as references others hold.    *)
NoneShort ==
  /\ pc = "idle" => none_refs + rootless = NoneOthers + none_held
  /\ pc = "dead" => rootless + 1 >= NoneOthers

(* A thread never has a context that is destroyed, and a function leaves   *)
(* none open, whichever way it returns.                                    *)
ContextsClosed ==
  /\ tls # "destroyed"
  /\ pc = "idle" => ~ctx /\ tls = "NULL"

(* A list returned without an exception has the names qmaster has, or the  *)
(* request failed and it is empty: it never has a part of them.            *)
ListsComplete ==
  pc = "return" /\ fn \in ListFunctions /\ result \in Objects /\ ~exception =>
    {text[s] : s \in items[result]} = IF failed THEN {} ELSE answer

Freed(o) == made[o] # "nothing" /\ refs[o] = 0
(* Nobody has o: no Python code, no list, no call. *)
Abandoned(o) == held[o] = 0 /\ o # result /\ \A l \in Objects : o \notin items[l]

(* Nothing is used after it was freed, over any series of calls: no step   *)
(* changes the count of a freed object, returns it, or puts it in a list.  *)
FreedForGood ==
  [][\A o \in Objects : Freed(o) =>
       Freed(o)' /\ made'[o] = made[o] /\ Abandoned(o)']_vars
-----------------------------------------------------------------------------
(* The inductive invariant. *)

(* What a call's result is at each place. *)
ResultKnown ==
  /\ pc \in {"init", "idle", "dead"} => result = NULL
  /\ pc \in {"setup", "request"} =>
       /\ ~exception
       /\ IF fn = "getSGERoot" THEN result = None ELSE result \in Objects /\ items[result] = {}
  /\ pc = "append" => fn \in ListFunctions /\ result \in Objects
  /\ pc \in {"reset", "close"} =>
       IF fn = "getSGERoot" THEN result = NULL => exception ELSE result \in Objects
  /\ result \in Objects => made[result] = fn /\ held[result] = 0
  /\ result = None => fn = "getSGERoot" /\ ~exception

(* A string is in one list at most, and only lists have items.             *)
HeapKnown ==
  /\ \A o \in Objects : made[o] = "nothing" => refs[o] = 0 /\ held[o] = 0
  /\ \A l, o \in Objects : o \in items[l] =>
       /\ made[o] = "name" /\ made[l] \in ListFunctions
       /\ \A k \in Objects : o \in items[k] => k = l

(* The context is open between GetContext and CloseContext, the thread's   *)
(* until ResetLocal.                                                       *)
ContextKnown ==
  /\ ctx <=> pc \in {"request", "append", "reset", "close"}
  /\ tls = IF pc \in {"request", "append", "reset"} THEN "open" ELSE "NULL"

(* Nothing is lost between the answer and the list. *)
NamesAccounted ==
  /\ pc = "append" /\ ~exception =>
       {text[s] : s \in items[result]} \cup left = IF failed THEN {} ELSE answer
  /\ pc \in {"reset", "close", "return"} /\ fn \in ListFunctions /\ result \in Objects /\ ~exception =>
       {text[s] : s \in items[result]} = IF failed THEN {} ELSE answer

(* The reference to Py_None that a call on its way back has given up. *)
Underway ==
  IF pc = "return" /\ fn = "getSGERoot" /\ result = NULL /\ ~exception THEN 1 ELSE 0

NoneCounted ==
  IF pc = "dead" THEN rootless + 1 >= NoneOthers
  ELSE none_refs > 0 /\ none_refs + rootless + Underway = NoneOthers + none_held

IInv ==
  /\ TypeOK /\ ResultKnown /\ HeapKnown /\ RefsCounted
  /\ ContextKnown /\ NamesAccounted /\ NoneCounted
=============================================================================
