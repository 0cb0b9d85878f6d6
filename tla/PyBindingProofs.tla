--------------------------- MODULE PyBindingProofs ---------------------------
(***************************************************************************)
(* Theorems about PyBinding, for any number of objects and of calls.       *)
(***************************************************************************)
EXTENDS PyBinding, TLAPS

LEMMA Initially == Init => IInv
<1> SUFFICES ASSUME Init PROVE IInv
  OBVIOUS
<1> USE NullAssumption, NoneAssumption DEF Init
<1>1. exception \in BOOLEAN /\ ctx \in BOOLEAN /\ failed \in BOOLEAN
  BY Zenon
<1>2. TypeOK
  BY <1>1 DEF TypeOK, Functions
<1>3. ResultKnown /\ HeapKnown /\ RefsCounted
  BY DEF ResultKnown, HeapKnown, RefsCounted
<1>4. ContextKnown /\ NamesAccounted /\ NoneCounted
  BY DEF ContextKnown, NamesAccounted, NoneCounted, Underway
<1>5. QED
  BY <1>2, <1>3, <1>4 DEF IInv

(* Truth values stay truth values. *)
LEMMA BooleansKept ==
  ASSUME TypeOK, [Next]_vars
  PROVE  exception' \in BOOLEAN /\ ctx' \in BOOLEAN /\ failed' \in BOOLEAN
BY Zenon DEF TypeOK, Next, Call, Python, InitModule, Begin, GetContext, GetContextFails, GetRoot,
   Request, AppendName, AppendFails, AppendEnds, ResetLocal, CloseContext, Return, Take, Drop,
   DropNone, vars, callVars, ctxVars, requestVars

-----------------------------------------------------------------------------
(* The heap, apart from the calls. *)

(* A new object has no owner but those it is given. *)
LEMMA NewObject ==
  ASSUME IInv, NEW o \in Objects, made[o] = "nothing"
  PROVE  /\ refs[o] = 0 /\ held[o] = 0 /\ o # result
         /\ \A l \in Objects : o \notin items[l] /\ items[o] = {}
<1>1. refs[o] = 0 /\ held[o] = 0
  BY DEF IInv, HeapKnown
<1>2. \A l \in Objects : o \notin items[l] /\ items[o] = {}
  BY DEF IInv, HeapKnown, TypeOK, ListFunctions
<1>3. o # result
  BY DEF IInv, ResultKnown, TypeOK, Functions, ListFunctions
<1>4. QED
  BY <1>1, <1>2, <1>3

(* What Decref leaves when Python code gives up a reference it holds. *)
LEMMA DropKeepsHeap ==
  ASSUME IInv, NEW o \in Objects, pc = "idle", held[o] > 0,
         held' = [held EXCEPT ![o] = @ - 1], Decref(o), UNCHANGED result
  PROVE  /\ refs' \in [Objects -> Nat] /\ held' \in [Objects -> Nat]
         /\ items' \in [Objects -> SUBSET Objects]
         /\ HeapKnown' /\ RefsCounted'
<1> USE DEF IInv
<1>1. result = NULL
  BY DEF ResultKnown
<1>2. /\ refs[o] = IF made[o] = "name" THEN Owners(o) + 1 ELSE Owners(o)
      /\ Owners(o) \in Nat /\ Owners(o) >= held[o]
  BY DEF RefsCounted, HeapKnown, TypeOK, Owners
<1>3. refs[o] \in Nat /\ held[o] \in Nat /\ refs[o] >= held[o] /\ refs[o] > 0
  <2>1. refs[o] \in Nat /\ held[o] \in Nat
    BY DEF TypeOK
  <2>2. QED
    BY <1>2, <2>1
<1>4. refs[o] = 1 => made[o] # "name" /\ held[o] = 1
  BY <1>2, <1>3 DEF Owners
<1>5. o \notin items[o]
  BY DEF HeapKnown, ListFunctions
<1>6. \A x \in items[o] : x \in Objects /\ refs[x] = Owners(x) + 1 /\ refs[x] > 1
                          /\ made[x] = "name"
  BY NullAssumption DEF HeapKnown, RefsCounted, TypeOK, Owners
<1>7. items' = IF refs[o] = 1 THEN [items EXCEPT ![o] = {}] ELSE items
  BY DEF Decref
<1>8. refs' = [x \in Objects |->
         IF x = o \/ (refs[o] = 1 /\ x \in items[o]) THEN refs[x] - 1 ELSE refs[x]]
  BY DEF Decref
<1>9. refs' \in [Objects -> Nat] /\ held' \in [Objects -> Nat]
  BY <1>3, <1>6, <1>8 DEF TypeOK
<1>10. items' \in [Objects -> SUBSET Objects]
  BY <1>7 DEF TypeOK
<1>11. HeapKnown'
  BY <1>3, <1>7, <1>8 DEF HeapKnown, TypeOK, Decref
<1>12. RefsCounted'
  <2> SUFFICES ASSUME NEW x \in Objects, made[x] # "nothing"
               PROVE  \/ refs'[x] = Owners(x)' /\ made[x] # "name"
                      \/ refs'[x] = Owners(x)' + 1 /\ made[x] = "name"
                      \/ refs'[x] = 1 /\ Owners(x)' = 0 /\ made[x] = "getHosts" /\ items'[x] = {}
    BY DEF RefsCounted, Decref
  <2>1. CASE x = o
    <3>1. (\E l \in Objects : x \in items'[l]) <=> (\E l \in Objects : x \in items[l])
      BY <1>5, <1>7, <2>1 DEF TypeOK
    <3>2. Owners(x)' = Owners(x) - 1
      BY <1>3, <2>1, <3>1 DEF Owners, TypeOK
    <3>3. refs'[x] = refs[x] - 1
      BY <1>8, <2>1
    <3>4. QED
      BY <1>2, <1>3, <2>1, <3>2, <3>3 DEF Owners, TypeOK
  <2>2. CASE x # o /\ refs[o] = 1 /\ x \in items[o]
    <3>1. \A l \in Objects : x \notin items'[l]
      BY <1>7, <2>2 DEF HeapKnown, TypeOK
    <3>2. Owners(x)' = Owners(x) - 1
      BY <2>2, <3>1 DEF Owners, TypeOK
    <3>3. refs'[x] = refs[x] - 1
      BY <1>8, <2>2
    <3>4. QED
      BY <1>6, <2>2, <3>2, <3>3 DEF TypeOK, Owners
  <2>3. CASE x # o /\ ~(refs[o] = 1 /\ x \in items[o])
    <3>1. (\E l \in Objects : x \in items'[l]) <=> (\E l \in Objects : x \in items[l])
      BY <1>7, <2>3 DEF TypeOK
    <3>2. Owners(x)' = Owners(x) /\ refs'[x] = refs[x]
      BY <1>8, <2>3, <3>1 DEF Owners, TypeOK
    <3>3. items[x] = {} => items'[x] = {}
      BY <1>7, <2>3 DEF TypeOK
    <3>4. QED
      BY <3>2, <3>3 DEF RefsCounted
  <2>4. QED
    BY <2>1, <2>2, <2>3
<1>13. QED
  BY <1>9, <1>10, <1>11, <1>12

-----------------------------------------------------------------------------
(* The steps of a call. *)

(* RefsCounted for one object. *)
Counted(x) ==
  made[x] # "nothing" =>
    \/ refs[x] = Owners(x) /\ made[x] # "name"
    \/ refs[x] = Owners(x) + 1 /\ made[x] = "name"
    \/ refs[x] = 1 /\ Owners(x) = 0 /\ made[x] = "getHosts" /\ items[x] = {}

LEMMA BeginKeeps == ASSUME IInv, NEW f \in Functions, Begin(f) PROVE IInv'
<1> USE NullAssumption DEF IInv, Begin, ctxVars, requestVars, noneVars
<1>1. exception' \in BOOLEAN /\ ctx' \in BOOLEAN /\ failed' \in BOOLEAN
  BY Zenon DEF TypeOK
<1>2. ContextKnown' /\ NamesAccounted' /\ NoneCounted'
  BY DEF ContextKnown, NamesAccounted, NoneCounted, Underway
<1>3. CASE f = "getSGERoot"
  <2>1. TypeOK'
    BY <1>1, <1>3 DEF TypeOK, heapVars
  <2>2. ResultKnown' /\ HeapKnown'
    BY <1>3 DEF ResultKnown, HeapKnown, heapVars
  <2>3. ASSUME NEW x \in Objects PROVE Owners(x)' = Owners(x)
    BY <1>3 DEF Owners, heapVars, ResultKnown
  <2>4. RefsCounted'
    BY <1>3, <2>3 DEF RefsCounted, heapVars
  <2>5. QED
    BY <1>2, <2>1, <2>2, <2>4
<1>4. CASE f # "getSGERoot"
  <2>1. PICK o \in Objects : New(o, f, 1) /\ result' = o /\ UNCHANGED <<text, items>>
    BY <1>4
  <2>2. /\ refs[o] = 0 /\ held[o] = 0 /\ o # result
        /\ \A l \in Objects : o \notin items[l] /\ items[o] = {}
    BY <2>1, NewObject DEF New
  <2>3. TypeOK'
    BY <1>1, <2>1 DEF TypeOK, New
  <2>4. f \in ListFunctions
    BY <1>4 DEF Functions
  <2>5. ResultKnown'
    BY <2>1, <2>2, <2>4 DEF ResultKnown, New, TypeOK, ListFunctions
  <2>6. HeapKnown'
    <3>1. \A x \in Objects : x # o => made'[x] = made[x] /\ refs'[x] = refs[x]
      BY <2>1 DEF New, TypeOK
    <3>2. made'[o] # "nothing"
      BY <2>1, <2>4 DEF New, TypeOK, ListFunctions
    <3>3. \A l, x \in Objects : x \in items[l] => x # o /\ l # o
      BY <2>2
    <3>4. items' = items /\ held' = held
      BY <2>1
    <3>5. \A x \in Objects : made'[x] = "nothing" => refs'[x] = 0 /\ held'[x] = 0
      BY <3>1, <3>2, <3>4 DEF HeapKnown
    <3>6. QED
      BY <3>1, <3>3, <3>4, <3>5 DEF HeapKnown
  <2>7. RefsCounted'
    <3> SUFFICES ASSUME NEW x \in Objects PROVE Counted(x)'
      BY DEF RefsCounted, Counted
    <3>1. CASE x = o
      <4>1. Owners(o)' = 1
        BY <2>1, <2>2 DEF Owners
      <4>2. QED
        BY <2>1, <2>4, <3>1, <4>1 DEF Counted, New, TypeOK, ListFunctions
    <3>2. CASE x # o
      <4>1. Owners(x)' = Owners(x)
        BY <2>1, <3>2 DEF Owners, ResultKnown
      <4>2. QED
        BY <2>1, <3>2, <4>1 DEF Counted, RefsCounted, New, TypeOK
    <3>3. QED
      BY <3>1, <3>2
  <2>8. QED
    BY <1>2, <2>3, <2>5, <2>6, <2>7
<1>5. QED
  BY <1>3, <1>4

LEMMA GetContextFailsKeeps == ASSUME IInv, GetContextFails PROVE IInv'
<1> USE NullAssumption, NoneAssumption DEF IInv, GetContextFails, ctxVars, requestVars
<1>1. exception' \in BOOLEAN /\ ctx' \in BOOLEAN /\ failed' \in BOOLEAN
  BY Zenon DEF TypeOK
<1>2. pc' \in {"return", "dead"} /\ (fn # "getSGERoot" => pc' = "return") /\ ~exception
  BY DEF DecrefNone, ResultKnown
<1>3. ContextKnown' /\ NamesAccounted'
  BY <1>2 DEF ContextKnown, NamesAccounted
<1>4. NoneCounted' /\ none_refs' \in Nat
  <2>1. CASE fn = "getSGERoot"
    BY <1>2, <2>1 DEF NoneCounted, DecrefNone, Underway, TypeOK
  <2>2. CASE fn # "getSGERoot"
    BY <1>2, <2>2 DEF NoneCounted, Underway, TypeOK
  <2>3. QED
    BY <2>1, <2>2
<1>5. ResultKnown'
  BY <1>2 DEF ResultKnown
<1>6. CASE fn = "getQueues"
  <2>1. result \in Objects /\ items[result] = {} /\ made[result] = "getQueues" /\ held[result] = 0
    BY <1>6 DEF ResultKnown
  <2>2. \A l \in Objects : result \notin items[l]
    BY <2>1 DEF HeapKnown
  <2>3. refs[result] = 1
    BY <2>1, <2>2 DEF RefsCounted, Owners
  <2>4. items' = items
    <3>1. items' = [items EXCEPT ![result] = {}]
      BY <1>6, <2>3 DEF Decref
    <3>2. items \in [Objects -> SUBSET Objects]
      BY DEF TypeOK
    <3>3. QED
      BY <2>1, <3>1, <3>2
  <2>5. refs' = [refs EXCEPT ![result] = 0] /\ UNCHANGED <<made, text>>
    BY <1>6, <2>1, <2>3 DEF Decref, TypeOK
  <2>6. TypeOK'
    BY <1>1, <1>2, <1>4, <2>4, <2>5 DEF TypeOK
  <2>7. HeapKnown'
    BY <2>1, <2>4, <2>5 DEF HeapKnown, TypeOK
  <2>8. RefsCounted'
    <3> SUFFICES ASSUME NEW x \in Objects PROVE Counted(x)'
      BY DEF RefsCounted, Counted
    <3>1. CASE x = result
      <4>1. Owners(x)' = 0
        BY <2>1, <2>2, <2>4, <3>1 DEF Owners
      <4>2. QED
        BY <2>1, <2>5, <3>1, <4>1 DEF Counted, TypeOK
    <3>2. CASE x # result
      <4>1. Owners(x)' = Owners(x)
        BY <2>4, <3>2 DEF Owners
      <4>2. QED
        BY <2>4, <2>5, <3>2, <4>1 DEF Counted, RefsCounted, TypeOK
    <3>3. QED
      BY <3>1, <3>2
  <2>9. QED
    BY <1>3, <1>4, <1>5, <2>6, <2>7, <2>8
<1>7. CASE fn # "getQueues"
  <2>1. UNCHANGED heapVars
    BY <1>7
  <2>2. TypeOK'
    BY <1>1, <1>2, <1>4, <2>1 DEF TypeOK, heapVars
  <2>3. HeapKnown'
    BY <2>1 DEF HeapKnown, heapVars
  <2>4. RefsCounted'
    <3> SUFFICES ASSUME NEW x \in Objects PROVE Counted(x)'
      BY DEF RefsCounted, Counted
    <3>1. CASE x = result
      <4>1. made[x] = "getHosts" /\ items[x] = {} /\ held[x] = 0
        BY <1>7, <3>1 DEF ResultKnown, TypeOK, Functions, ListFunctions
      <4>2. \A l \in Objects : x \notin items[l]
        BY <4>1 DEF HeapKnown
      <4>3. refs[x] = 1
        BY <3>1, <4>1, <4>2 DEF RefsCounted, Owners
      <4>4. Owners(x)' = 0
        BY <2>1, <4>1, <4>2 DEF Owners, heapVars
      <4>5. QED
        BY <2>1, <4>1, <4>3, <4>4 DEF Counted, heapVars
    <3>2. CASE x # result
      <4>1. Owners(x)' = Owners(x)
        BY <2>1, <3>2 DEF Owners, heapVars
      <4>2. QED
        BY <2>1, <4>1 DEF Counted, RefsCounted, heapVars
    <3>3. QED
      BY <3>1, <3>2
  <2>5. QED
    BY <1>3, <1>4, <1>5, <2>2, <2>3, <2>4
<1>8. QED
  BY <1>6, <1>7

(* Steps that leave the heap alone. *)
LEMMA HeapAlone ==
  ASSUME IInv, UNCHANGED <<heapVars, held>>, result' = result \/ {result, result'} \cap Objects = {}
  PROVE  HeapKnown' /\ RefsCounted'
<1>1. HeapKnown'
  BY DEF IInv, HeapKnown, heapVars
<1>2. ASSUME NEW x \in Objects PROVE Owners(x)' = Owners(x)
  BY DEF Owners, heapVars
<1>3. RefsCounted'
  BY <1>2 DEF IInv, RefsCounted, heapVars
<1>4. QED
  BY <1>1, <1>3

LEMMA PlainSteps ==
  ASSUME IInv, [Next]_vars,
         \/ InitModule \/ GetContext \/ Request \/ AppendEnds
         \/ ResetLocal \/ CloseContext \/ DropNone \/ UNCHANGED vars
  PROVE  IInv'
<1> USE NullAssumption, NoneAssumption DEF IInv
<1>1. exception' \in BOOLEAN /\ ctx' \in BOOLEAN /\ failed' \in BOOLEAN
  BY BooleansKept
<1>2. UNCHANGED <<heapVars, held, callVars>>
  BY DEF InitModule, GetContext, Request, AppendEnds, ResetLocal, CloseContext, DropNone, vars
<1>3. HeapKnown' /\ RefsCounted'
  BY <1>2, HeapAlone DEF callVars
<1> USE <1>1, <1>2 DEF TypeOK, ResultKnown, ContextKnown, NamesAccounted, NoneCounted, Underway,
                      vars, heapVars, callVars, ctxVars, requestVars, noneVars
<1>4. CASE InitModule
  BY <1>3, <1>4 DEF InitModule
<1>5. CASE GetContext
  BY <1>3, <1>5 DEF GetContext
<1>6. CASE Request
  BY <1>3, <1>6 DEF Request, ListFunctions
<1>7. CASE AppendEnds
  BY <1>3, <1>7 DEF AppendEnds, ListFunctions
<1>8. CASE ResetLocal
  BY <1>3, <1>8 DEF ResetLocal
<1>9. CASE CloseContext
  <2>1. TypeOK' /\ ResultKnown' /\ ContextKnown' /\ NamesAccounted'
    BY <1>9 DEF CloseContext, ListFunctions
  <2>2. Underway = 0 /\ Underway' = 0
    BY <1>9 DEF CloseContext
  <2>3. NoneCounted'
    BY <1>9, <2>2 DEF CloseContext
  <2>4. QED
    BY <1>3, <2>1, <2>3
<1>10. CASE DropNone
  BY <1>3, <1>10 DEF DropNone, DecrefNone
<1>11. CASE UNCHANGED vars
  <2>1. TypeOK' /\ ResultKnown' /\ ContextKnown' /\ NamesAccounted'
    <3>1. UNCHANGED <<pc, fn, result, exception, ctx, tls, answer, failed, left, made, text, items,
                      refs, held, none_refs, none_held, rootless, calls>>
      BY <1>11
    <3>2. TypeOK'
      BY <3>1
    <3>3. ResultKnown'
      BY <3>1
    <3>4. ContextKnown' /\ NamesAccounted'
      BY <3>1
    <3>5. QED
      BY <3>2, <3>3, <3>4
  <2>2. Underway' = Underway
    BY <1>11
  <2>3. NoneCounted'
    BY <1>11, <2>2
  <2>4. QED
    BY <1>3, <2>1, <2>3
<1>12. QED
  BY <1>4, <1>5, <1>6, <1>7, <1>8, <1>9, <1>10, <1>11

LEMMA ReturnKeeps == ASSUME IInv, Return PROVE IInv'
<1> USE NullAssumption, NoneAssumption DEF IInv, Return, ctxVars, requestVars, heapVars
<1>1. exception' \in BOOLEAN /\ ctx' \in BOOLEAN /\ failed' \in BOOLEAN
  BY Zenon DEF TypeOK
<1>2. TypeOK'
  BY <1>1 DEF TypeOK
<1>3. ResultKnown' /\ ContextKnown' /\ NamesAccounted'
  BY DEF ResultKnown, ContextKnown, NamesAccounted
<1>4. NoneCounted'
  <2>1. none_refs > 0 /\ none_refs + rootless + Underway = NoneOthers + none_held
    BY DEF NoneCounted
  <2>2. Underway' = 0
    BY DEF Underway
  <2>3. none_held' + Underway + rootless = none_held + rootless'
    <3>1. none_held \in Nat /\ rootless \in Nat
      BY DEF TypeOK
    <3>2. CASE result = None
      BY <3>1, <3>2 DEF Underway, ResultKnown
    <3>3. CASE result # None
      <4>1. none_held' = none_held
        BY <3>3
      <4>2. rootless' = rootless + Underway
        BY <3>1, <3>3 DEF Underway, TypeOK
      <4>3. QED
        BY <3>1, <4>1, <4>2 DEF Underway
    <3>4. QED
      BY <3>2, <3>3
  <2>4. QED
    BY <2>1, <2>2, <2>3 DEF NoneCounted, TypeOK, Underway
<1>5. HeapKnown'
  BY DEF HeapKnown, TypeOK, ResultKnown, Functions, ListFunctions
<1>6. RefsCounted'
  <2> SUFFICES ASSUME NEW x \in Objects PROVE Counted(x)'
    BY DEF RefsCounted, Counted
  <2>1. Owners(x)' = Owners(x)
    BY DEF Owners, TypeOK
  <2>2. QED
    BY <2>1 DEF Counted, RefsCounted
<1>7. QED
  BY <1>2, <1>3, <1>4, <1>5, <1>6

LEMMA GetRootKeeps == ASSUME IInv, [Next]_vars, GetRoot PROVE IInv'
<1> USE NullAssumption, NoneAssumption DEF IInv, GetRoot, ctxVars, requestVars, noneVars
<1>1. exception' \in BOOLEAN /\ ctx' \in BOOLEAN /\ failed' \in BOOLEAN
  BY BooleansKept
<1>2. ContextKnown' /\ NamesAccounted' /\ NoneCounted'
  BY DEF ContextKnown, NamesAccounted, NoneCounted, Underway, ListFunctions
<1>3. result = None
  BY DEF ResultKnown
<1>4. CASE UNCHANGED heapVars /\ result' \in {result, NULL} /\ (result' = NULL => exception')
  <2>1. HeapKnown' /\ RefsCounted'
    BY <1>3, <1>4, HeapAlone
  <2>2. TypeOK' /\ ResultKnown'
    BY <1>1, <1>3, <1>4 DEF TypeOK, ResultKnown, heapVars
  <2>3. QED
    BY <1>2, <2>1, <2>2
<1>5. ASSUME NEW s \in Objects, New(s, fn, 1), result' = s, UNCHANGED <<text, items, exception>>
      PROVE  IInv'
  <2>1. /\ refs[s] = 0 /\ held[s] = 0
        /\ \A l \in Objects : s \notin items[l] /\ items[s] = {}
    BY <1>5, NewObject DEF New
  <2>2. TypeOK' /\ ResultKnown'
    BY <1>1, <1>5, <2>1 DEF TypeOK, ResultKnown, New, Functions
  <2>3. \A x \in Objects : x # s => made'[x] = made[x] /\ refs'[x] = refs[x]
    BY <1>5 DEF New, TypeOK
  <2>4. made'[s] = "getSGERoot" /\ refs'[s] = 1
    BY <1>5 DEF New, TypeOK
  <2>5. HeapKnown'
    BY <1>5, <2>1, <2>3, <2>4 DEF HeapKnown
  <2>6. RefsCounted'
    <3> SUFFICES ASSUME NEW x \in Objects PROVE Counted(x)'
      BY DEF RefsCounted, Counted
    <3>1. CASE x = s
      <4>1. Owners(x)' = 1
        BY <1>5, <2>1, <3>1 DEF Owners
      <4>2. QED
        BY <2>4, <3>1, <4>1 DEF Counted
    <3>2. CASE x # s
      <4>1. Owners(x)' = Owners(x)
        BY <1>3, <1>5, <3>2 DEF Owners
      <4>2. QED
        BY <1>5, <2>3, <3>2, <4>1 DEF Counted, RefsCounted
    <3>3. QED
      BY <3>1, <3>2
  <2>7. QED
    BY <1>2, <2>2, <2>5, <2>6
<1>6. CASE result' = NULL /\ exception' = TRUE /\ UNCHANGED heapVars
  BY <1>4, <1>6
<1>7. CASE UNCHANGED <<result, heapVars, exception>>
  BY <1>3, <1>4, <1>7
<1>8. QED
  BY <1>5, <1>6, <1>7

LEMMA AppendNameKeeps == ASSUME IInv, [Next]_vars, AppendName PROVE IInv'
<1> USE NullAssumption DEF IInv, AppendName, callVars, ctxVars, noneVars
<1>1. exception' \in BOOLEAN /\ ctx' \in BOOLEAN /\ failed' \in BOOLEAN
  BY BooleansKept
<1>2. PICK n \in left, s \in Objects :
        /\ New(s, "name", 2)
        /\ text' = [text EXCEPT ![s] = n]
        /\ items' = [items EXCEPT ![result] = @ \cup {s}]
        /\ left' = left \ {n}
  OBVIOUS
<1>3. /\ refs[s] = 0 /\ held[s] = 0 /\ s # result
      /\ \A l \in Objects : s \notin items[l] /\ items[s] = {}
  BY <1>2, NewObject DEF New
<1>4. result \in Objects /\ fn \in ListFunctions /\ made[result] = fn
  BY DEF ResultKnown
<1>5. TypeOK'
  BY <1>1, <1>2, <1>4 DEF TypeOK, New
<1>6. ResultKnown'
  BY <1>2, <1>3, <1>4 DEF ResultKnown, New, TypeOK
<1>7. ContextKnown' /\ NoneCounted'
  BY DEF ContextKnown, NoneCounted, Underway
<1>8. /\ \A x \in Objects : x # s => made'[x] = made[x] /\ refs'[x] = refs[x] /\ text'[x] = text[x]
      /\ \A x \in Objects : x # result => items'[x] = items[x]
      /\ made'[s] = "name" /\ refs'[s] = 2 /\ text'[s] = n /\ items'[result] = items[result] \cup {s}
  BY <1>2, <1>4 DEF New, TypeOK
<1>9. NamesAccounted'
  <2>1. {text'[x] : x \in items'[result]} = {text[x] : x \in items[result]} \cup {n}
    <3>1. \A x \in items[result] : x \in Objects /\ x # s
      BY <1>3, <1>4 DEF TypeOK
    <3>2. QED
      BY <1>8, <3>1
  <2>2. QED
    BY <1>2, <2>1 DEF NamesAccounted
<1>10. HeapKnown'
  <2>1. ASSUME NEW x \in Objects, made'[x] = "nothing" PROVE refs'[x] = 0 /\ held'[x] = 0
    BY <1>8, <2>1 DEF HeapKnown
  <2>2. ASSUME NEW l \in Objects, NEW x \in Objects, x \in items'[l]
        PROVE  /\ made'[x] = "name" /\ made'[l] \in ListFunctions
               /\ \A k \in Objects : x \in items'[k] => k = l
    <3>1. CASE x = s
      BY <1>3, <1>4, <1>8, <2>2, <3>1
    <3>2. CASE x # s
      <4>1. \A k \in Objects : x \in items'[k] <=> x \in items[k]
        BY <1>4, <1>8, <3>2
      <4>2. l # s
        BY <1>3, <2>2, <4>1
      <4>3. QED
        BY <1>8, <2>2, <3>2, <4>1, <4>2 DEF HeapKnown
    <3>3. QED
      BY <3>1, <3>2
  <2>3. QED
    BY <2>1, <2>2 DEF HeapKnown
<1>11. RefsCounted'
  <2> SUFFICES ASSUME NEW x \in Objects PROVE Counted(x)'
    BY DEF RefsCounted, Counted
  <2>1. CASE x = s
    <3>1. Owners(x)' = 1
      BY <1>3, <1>4, <1>8, <2>1 DEF Owners
    <3>2. QED
      BY <1>8, <2>1, <3>1 DEF Counted
  <2>2. CASE x # s
    <3>1. \A k \in Objects : x \in items'[k] <=> x \in items[k]
      BY <1>4, <1>8, <2>2
    <3>2. Owners(x)' = Owners(x)
      BY <3>1 DEF Owners
    <3>3. Owners(x) = 0 => items'[x] = items[x]
      <4>1. Owners(x) = 0 => x # result
        BY DEF Owners, TypeOK
      <4>2. QED
        BY <1>8, <4>1
    <3>4. QED
      BY <1>8, <2>2, <3>2, <3>3 DEF Counted, RefsCounted
  <2>3. QED
    BY <2>1, <2>2
<1>12. QED
  BY <1>5, <1>6, <1>7, <1>9, <1>10, <1>11

LEMMA AppendFailsKeeps == ASSUME IInv, [Next]_vars, AppendFails PROVE IInv'
<1> USE NullAssumption DEF IInv, AppendFails, ctxVars, noneVars
<1>1. exception' \in BOOLEAN /\ ctx' \in BOOLEAN /\ failed' \in BOOLEAN
  BY BooleansKept
<1>2. result \in Objects /\ fn \in ListFunctions /\ made[result] = fn
  BY DEF ResultKnown
<1>3. ContextKnown' /\ NoneCounted' /\ NamesAccounted'
  BY DEF ContextKnown, NoneCounted, Underway, NamesAccounted
<1>4. CASE UNCHANGED heapVars
  <2>1. HeapKnown' /\ RefsCounted'
    BY <1>4, HeapAlone
  <2>2. TypeOK'
    BY <1>1, <1>4 DEF TypeOK, heapVars
  <2>3. ResultKnown'
    BY <1>2, <1>4 DEF ResultKnown, heapVars
  <2>4. QED
    BY <1>3, <2>1, <2>2, <2>3
<1>5. ASSUME NEW n \in left, NEW s \in Objects,
             New(s, "name", 1), text' = [text EXCEPT ![s] = n], UNCHANGED items
      PROVE  IInv'
  <2>1. /\ refs[s] = 0 /\ held[s] = 0 /\ s # result
        /\ \A l \in Objects : s \notin items[l] /\ items[s] = {}
    BY <1>5, NewObject DEF New
  <2>2. TypeOK'
    BY <1>1, <1>5 DEF TypeOK, New
  <2>3. /\ \A x \in Objects : x # s => made'[x] = made[x] /\ refs'[x] = refs[x]
        /\ made'[s] = "name" /\ refs'[s] = 1
    BY <1>5 DEF New, TypeOK
  <2>4. ResultKnown'
    BY <1>2, <1>5, <2>1, <2>3 DEF ResultKnown
  <2>5. HeapKnown'
    BY <1>5, <2>1, <2>3 DEF HeapKnown
  <2>6. RefsCounted'
    <3> SUFFICES ASSUME NEW x \in Objects PROVE Counted(x)'
      BY DEF RefsCounted, Counted
    <3>1. Owners(x)' = Owners(x)
      BY <1>5 DEF Owners
    <3>2. CASE x = s
      <4>1. Owners(x) = 0
        BY <2>1, <3>2 DEF Owners
      <4>2. QED
        BY <2>3, <3>1, <3>2, <4>1 DEF Counted
    <3>3. CASE x # s
      BY <1>5, <2>3, <3>1, <3>3 DEF Counted, RefsCounted
    <3>4. QED
      BY <3>2, <3>3
  <2>7. QED
    BY <1>3, <2>2, <2>4, <2>5, <2>6
<1>6. QED
  BY <1>4, <1>5

-----------------------------------------------------------------------------
(* Python code. *)

LEMMA TakeKeeps == ASSUME IInv, NEW o \in Objects, Take(o) PROVE IInv'
<1> USE NullAssumption DEF IInv, Take, callVars, ctxVars, requestVars, noneVars
<1>1. exception' \in BOOLEAN /\ ctx' \in BOOLEAN /\ failed' \in BOOLEAN
  BY Zenon DEF TypeOK
<1>2. TypeOK'
  BY <1>1 DEF TypeOK
<1>3. result = NULL
  BY DEF ResultKnown
<1>4. ResultKnown' /\ ContextKnown' /\ NamesAccounted' /\ NoneCounted'
  BY <1>3 DEF ResultKnown, ContextKnown, NamesAccounted, NoneCounted, Underway
<1>5. Owners(o) > 0 /\ made[o] # "nothing"
  BY DEF Reached, Owners, HeapKnown, TypeOK
<1>6. HeapKnown'
  BY <1>5 DEF HeapKnown, TypeOK
<1>7. RefsCounted'
  <2> SUFFICES ASSUME NEW x \in Objects PROVE Counted(x)'
    BY DEF RefsCounted, Counted
  <2>1. CASE x = o
    <3>1. Owners(x)' = Owners(x) + 1 /\ Owners(x) \in Nat
      BY <2>1 DEF Owners, TypeOK
    <3>2. refs'[x] = refs[x] + 1
      BY <2>1 DEF TypeOK
    <3>3. QED
      BY <1>5, <2>1, <3>1, <3>2 DEF Counted, RefsCounted
  <2>2. CASE x # o
    <3>1. Owners(x)' = Owners(x)
      BY <2>2 DEF Owners, TypeOK
    <3>2. QED
      BY <2>2, <3>1 DEF Counted, RefsCounted, TypeOK
  <2>3. QED
    BY <2>1, <2>2
<1>8. QED
  BY <1>2, <1>4, <1>6, <1>7

LEMMA DropKeeps == ASSUME IInv, NEW o \in Objects, Drop(o) PROVE IInv'
<1> USE NullAssumption DEF IInv, Drop, callVars, ctxVars, requestVars, noneVars
<1>1. exception' \in BOOLEAN /\ ctx' \in BOOLEAN /\ failed' \in BOOLEAN
  BY Zenon DEF TypeOK
<1>2. /\ refs' \in [Objects -> Nat] /\ held' \in [Objects -> Nat]
      /\ items' \in [Objects -> SUBSET Objects]
      /\ HeapKnown' /\ RefsCounted'
  BY DropKeepsHeap
<1>3. TypeOK'
  BY <1>1, <1>2 DEF TypeOK, Decref
<1>4. result = NULL
  BY DEF ResultKnown
<1>5. ResultKnown' /\ ContextKnown' /\ NamesAccounted' /\ NoneCounted'
  BY <1>4 DEF ResultKnown, ContextKnown, NamesAccounted, NoneCounted, Underway
<1>6. QED
  BY <1>2, <1>3, <1>5

-----------------------------------------------------------------------------
LEMMA Inductive == IInv /\ [Next]_vars => IInv'
<1> SUFFICES ASSUME IInv, [Next]_vars PROVE IInv'
  OBVIOUS
<1>1. CASE Call
  BY <1>1, BeginKeeps, GetContextFailsKeeps, PlainSteps, ReturnKeeps, GetRootKeeps,
     AppendNameKeeps, AppendFailsKeeps DEF Call
<1>2. CASE Python
  BY <1>2, PlainSteps, TakeKeeps, DropKeeps DEF Python
<1>3. QED
  BY <1>1, <1>2, PlainSteps DEF Next

(* The count of each object and of Py_None, and where a call is with them. *)
THEOREM PyInvariance == Spec => []IInv
  BY Initially, Inductive, PTL DEF Spec

(* Every variable keeps its type.  Of the counters this says that no       *)
(* reference is given up that nobody had: they are Nat, and the code       *)
(* decrements them.                                                        *)
THEOREM PyTypeCorrect == Spec => []TypeOK
<1>1. IInv => TypeOK
  BY DEF IInv
<1>2. QED
  BY PyInvariance, <1>1, PTL

(* Over any series of calls no list and no string is freed while somebody  *)
(* has a reference, and only the strings of lists and the lists of failed  *)
(* getHosts stay.                                                          *)
THEOREM ReferencesAreCounted == Spec => [](TypeOK /\ RefsCounted)
<1>1. IInv => TypeOK /\ RefsCounted
  BY DEF IInv
<1>2. QED
  BY PyInvariance, <1>1, PTL

(* Py_None loses one reference for each getSGERoot without a root.         *)
THEOREM NoneIsShort == Spec => []NoneShort
<1>1. IInv => NoneShort
  BY DEF IInv, NoneCounted, NoneShort, Underway, TypeOK
<1>2. QED
  BY PyInvariance, <1>1, PTL

(* No thread keeps a context that is destroyed, no call leaves one open.   *)
THEOREM ContextsAreClosed == Spec => []ContextsClosed
<1>1. IInv => ContextsClosed
  BY DEF IInv, ContextKnown, ContextsClosed, TypeOK
<1>2. QED
  BY PyInvariance, <1>1, PTL

(* A list returned without an exception is what qmaster has, or the        *)
(* request failed.                                                         *)
THEOREM ListsAreComplete == Spec => []ListsComplete
<1>1. IInv => ListsComplete
  BY DEF IInv, NamesAccounted, ListsComplete
<1>2. QED
  BY PyInvariance, <1>1, PTL

-----------------------------------------------------------------------------
(* Freed objects. *)

(* What is freed nobody has. *)
LEMMA FreedIsAbandoned ==
  ASSUME IInv, NEW o \in Objects, Freed(o) PROVE Abandoned(o)
<1>1. held[o] \in Nat /\ refs[o] = 0 /\ made[o] # "nothing"
  BY DEF Freed, IInv, TypeOK
<1>2. refs[o] = Owners(o)
  <2>1. Owners(o) \in Nat
    BY <1>1 DEF Owners
  <2> QED BY <1>1, <2>1 DEF IInv, RefsCounted
<1> QED BY <1>1, <1>2 DEF Owners, Abandoned

(* Each step leaves a freed object alone. *)
LEMMA FreedStep ==
  ASSUME IInv, NEW o \in Objects, Freed(o), [Next]_vars
  PROVE  Freed(o)' /\ made'[o] = made[o] /\ Abandoned(o)'
<1>a. Abandoned(o)
  BY FreedIsAbandoned
<1>n. o # NULL /\ o # None
  BY NullAssumption
<1>t. /\ made \in [Objects -> Functions \cup {"name", "nothing"}]
      /\ items \in [Objects -> SUBSET Objects]
      /\ refs \in [Objects -> Nat] /\ held \in [Objects -> Nat]
  BY DEF IInv, TypeOK
<1>0. ASSUME made' = made \/ \E x \in Objects : x # o /\ \E w : made' = [made EXCEPT ![x] = w],
             refs'[o] = refs[o], held'[o] = held[o], o # result',
             \A l \in Objects : o \notin items'[l]
      PROVE  Freed(o)' /\ made'[o] = made[o] /\ Abandoned(o)'
  BY <1>a, <1>t, <1>0 DEF Freed, Abandoned
<1>d. ASSUME NEW x \in Objects, Decref(x), x # o
      PROVE  made' = made /\ refs'[o] = refs[o] /\ \A l \in Objects : o \notin items'[l]
  BY <1>a, <1>t, <1>d DEF Decref, Abandoned
<1> USE <1>a, <1>n, <1>t DEF Abandoned
<1>1. CASE \E f \in Functions : Begin(f)
  <2> PICK f \in Functions : Begin(f)
    BY <1>1
  <2>1. CASE f = "getSGERoot"
    BY <1>0, <2>1 DEF Begin, heapVars
  <2>2. CASE f # "getSGERoot"
    <3>1. PICK l \in Objects : New(l, f, 1) /\ result' = l /\ UNCHANGED <<text, items>>
      BY <2>2 DEF Begin
    <3>2. l # o
      BY <3>1 DEF New, Freed
    <3> QED BY <1>0, <3>1, <3>2 DEF Begin, New
  <2> QED BY <2>1, <2>2
<1>2. CASE GetContextFails
  <2>1. CASE fn = "getQueues"
    <3>1. Decref(result) /\ result \in Objects /\ result' = NULL /\ held' = held
      BY <1>2, <2>1 DEF GetContextFails, IInv, ResultKnown
    <3> QED BY <1>0, <1>d, <3>1
  <2>2. CASE fn # "getQueues"
    BY <1>0, <1>2, <2>2 DEF GetContextFails, heapVars
  <2> QED BY <2>1, <2>2
<1>3. CASE GetRoot
  <2>1. ASSUME NEW s \in Objects, New(s, fn, 1), result' = s, UNCHANGED <<text, items>>
        PROVE  Freed(o)' /\ made'[o] = made[o] /\ Abandoned(o)'
    <3>1. s # o
      BY <2>1 DEF New, Freed
    <3> QED BY <1>0, <1>3, <2>1, <3>1 DEF GetRoot, New
  <2>2. ASSUME UNCHANGED heapVars, result' \in {result, NULL}
        PROVE  Freed(o)' /\ made'[o] = made[o] /\ Abandoned(o)'
    BY <1>0, <1>3, <2>2 DEF GetRoot, heapVars
  <2> QED BY <1>3, <2>1, <2>2 DEF GetRoot
<1>4. CASE AppendName
  <2>1. PICK n \in left, s \in Objects :
          /\ New(s, "name", 2)
          /\ items' = [items EXCEPT ![result] = @ \cup {s}]
    BY <1>4 DEF AppendName
  <2>2. s # o
    BY <2>1 DEF New, Freed
  <2>3. held' = held /\ result' = result
    BY <1>4 DEF AppendName, callVars
  <2> QED BY <1>0, <2>1, <2>2, <2>3 DEF New
<1>5. CASE AppendFails
  <2>1. CASE UNCHANGED heapVars
    BY <1>0, <1>5, <2>1 DEF AppendFails, heapVars
  <2>2. CASE ~UNCHANGED heapVars
    <3>1. PICK s \in Objects : New(s, "name", 1) /\ UNCHANGED items
      BY <1>5, <2>2 DEF AppendFails
    <3>2. s # o
      BY <3>1 DEF New, Freed
    <3> QED BY <1>0, <1>5, <3>1, <3>2 DEF AppendFails, New
  <2> QED BY <2>1, <2>2
<1>6. CASE Return
  <2>1. held'[o] = held[o]
    BY <1>6 DEF Return
  <2> QED BY <1>0, <1>6, <2>1 DEF Return, heapVars
<1>7. CASE \E x \in Objects : Take(x)
  <2>1. PICK x \in Objects : Take(x)
    BY <1>7
  <2>2. x # o
    BY <2>1 DEF Take, Reached
  <2> QED BY <1>0, <2>1, <2>2 DEF Take, callVars
<1>8. CASE \E x \in Objects : Drop(x)
  <2>1. PICK x \in Objects : Drop(x)
    BY <1>8
  <2>2. x # o
    BY <2>1 DEF Drop
  <2>3. held'[o] = held[o] /\ result' = result
    BY <2>1, <2>2 DEF Drop, callVars
  <2>4. made' = made /\ refs'[o] = refs[o] /\ \A l \in Objects : o \notin items'[l]
    BY <2>1, <2>2, <1>d DEF Drop
  <2> QED BY <1>0, <2>3, <2>4
<1>9. CASE \/ InitModule \/ GetContext \/ Request \/ AppendEnds \/ ResetLocal \/ CloseContext
           \/ DropNone \/ UNCHANGED vars
  BY <1>0, <1>9 DEF InitModule, GetContext, Request, AppendEnds, ResetLocal, CloseContext,
     DropNone, vars, heapVars, callVars
<1> QED BY <1>1, <1>2, <1>3, <1>4, <1>5, <1>6, <1>7, <1>8, <1>9 DEF Next, Call, Python

(* FreedForGood, for any number of calls and objects.                      *)
THEOREM NoUseAfterFree == Spec => FreedForGood
<1>1. IInv /\ [Next]_vars => \A o \in Objects : Freed(o) =>
        Freed(o)' /\ made'[o] = made[o] /\ Abandoned(o)'
  BY FreedStep
<1> QED BY <1>1, PyInvariance, PTL DEF Spec, FreedForGood
=============================================================================
