------------------------- MODULE SchemaCacheProofs -------------------------
(***************************************************************************)
(* What the schema cache promises for every number of tasks, closers,      *)
(* names, chunks and faults.                                               *)
(***************************************************************************)
EXTENDS SchemaCache, TLAPS

LEMMA NoneIsSchema == None \in Schemas /\ Missing(None)
  BY DEF None, Schemas, Missing

\* A schema is Missing exactly by its names; a served change is a schema.
LEMMA ChangeIsSchema ==
  ASSUME server \in Schemas, NEW names \in SUBSET Names, Change(names)
  PROVE  server' \in Schemas /\ server'.ver = server.ver + 1 /\ server'.names = names
  BY DEF Schemas, Change

\* What a statement changes the schema to is a set of names.
LEMMA ChangesAreNames ==
  ASSUME CacheAssumption, TypeOK, NEW c \in Calls
  PROVE  Changes(c) \subseteq SUBSET Names /\ AutoNames(c) \subseteq SUBSET Names
<1>1. held[c].names \subseteq Names /\ server.names \subseteq Names
  BY DEF TypeOK, Schemas
<1>2. Changes(c) \subseteq SUBSET Names
  BY <1>1 DEF Changes
<1>3. AutoNames(c) \subseteq SUBSET Names
  BY <1>1 DEF AutoNames, CacheAssumption
<1> QED
  BY <1>2, <1>3

-----------------------------------------------------------------------------
(* Types. A call moves by one of four helpers; each keeps its part.        *)

CallTypes ==
  /\ pc \in [Calls -> Awaits \cup {"idle", "next", "adrift"}]
  /\ kind \in [Calls -> Operations \cup {"none", "chunk"}]
  /\ held \in [Calls -> Schemas] /\ tmpl \in [Calls -> Schemas]
  /\ kept \in [Calls -> BOOLEAN] /\ left \in [Calls -> 0..Chunks]
  /\ since \in [Calls -> Nat] /\ asOf \in [Calls -> Nat]

LEMMA GotoTypes ==
  ASSUME CallTypes, NEW c \in Calls,
         NEW place \in Awaits \cup {"idle", "next", "adrift"}, Goto(c, place), Keep
  PROVE  CallTypes'
  BY DEF CallTypes, Goto, Keep, KeepTemplate

LEMMA LeaveTypes ==
  ASSUME CallTypes, CacheAssumption, NEW c \in Calls, Leave(c)
  PROVE  /\ pc' \in [Calls -> Awaits \cup {"idle", "next", "adrift"}]
         /\ kind' \in [Calls -> Operations \cup {"none", "chunk"}]
         /\ held' \in [Calls -> Schemas] /\ left' \in [Calls -> 0..Chunks]
         /\ since' \in [Calls -> Nat]
<1>1. Chunks \in 0..Chunks
  BY DEF CacheAssumption
<1> QED
  BY <1>1, NoneIsSchema DEF CallTypes, Leave, Goto

LEMMA ReturnTypes ==
  ASSUME CallTypes, CacheAssumption, NEW c \in Calls, Return(c)
  PROVE  CallTypes'
<1>1. Leave(c)
  BY DEF Return
<1>2. tmpl' \in [Calls -> Schemas] /\ asOf' \in [Calls -> Nat] /\ kept' \in [Calls -> BOOLEAN]
  BY NoneIsSchema DEF CallTypes, Return
<1> QED
  BY <1>1, <1>2, LeaveTypes DEF CallTypes

LEMMA UseTypes ==
  ASSUME CallTypes, CacheAssumption, NEW c \in Calls, NEW s \in Schemas, Use(c, s)
  PROVE  CallTypes'
<1>1. CASE kind[c] = "prepare"
  <2>1. Leave(c) /\ tmpl' = [tmpl EXCEPT ![c] = s] /\ kept' = [kept EXCEPT ![c] = TRUE] /\ asOf' = asOf
    BY <1>1 DEF Use
  <2>2. tmpl' \in [Calls -> Schemas] /\ asOf' \in [Calls -> Nat] /\ kept' \in [Calls -> BOOLEAN]
    BY <2>1 DEF CallTypes
  <2> QED
    BY <2>1, <2>2, LeaveTypes DEF CallTypes
<1>2. CASE kind[c] = "many"
  BY <1>2 DEF CallTypes, Use, Goto
<1>3. CASE kind[c] \notin {"prepare", "many"}
  BY <1>3 DEF CallTypes, Use, Goto, KeepTemplate, Awaits
<1> QED
  BY <1>1, <1>2, <1>3

LEMMA FaultTypes ==
  ASSUME CacheAssumption, faults \in 0..MaxFaults, Fault
  PROVE  faults' \in 0..MaxFaults
  BY DEF Fault, CacheAssumption

\* Every variable keeps its type.
LEMMA TypeInvariant == CacheAssumption => (Spec => []TypeOK)
<1> SUFFICES ASSUME CacheAssumption PROVE Spec => []TypeOK
  OBVIOUS
<1>1. Init => TypeOK
  <2> SUFFICES ASSUME Init PROVE TypeOK
    OBVIOUS
  <2>1. server \in Schemas
    BY DEF Init, Schemas
  <2>2. 0 \in 0..MaxFaults /\ Chunks \in 0..Chunks
    BY DEF CacheAssumption
  <2> QED
    BY <2>1, <2>2, NoneIsSchema DEF Init, TypeOK
<1>2. TypeOK /\ [Next]_vars => TypeOK'
  <2> SUFFICES ASSUME TypeOK, [Next]_vars PROVE TypeOK'
    OBVIOUS
  <2> USE NoneIsSchema
  <2>0. CallTypes
    BY DEF TypeOK, CallTypes
  <2>c. CallTypes' /\ server' \in Schemas /\ cache' \in Schemas
          /\ closed' \in BOOLEAN /\ locked' \in BOOLEAN
          /\ cl' \in [Closers -> {"idle", "clear", "backend", "done"}]
          /\ closes' \in Nat /\ faults' \in 0..MaxFaults
          /\ returned' \in Nat /\ overlap' \in BOOLEAN
        => TypeOK'
    BY DEF TypeOK, CallTypes
  <2>1. ASSUME NEW c \in Calls, NEW k \in Kinds[c], Begin(c, k) PROVE TypeOK'
    <3>1. First(k) \in Awaits /\ k \in Operations
      BY DEF First, Awaits, CacheAssumption
    <3>2. CallTypes'
      <4>1. tmpl' \in [Calls -> Schemas] /\ asOf' \in [Calls -> Nat] /\ kept' \in [Calls -> BOOLEAN]
        <5>1. CASE k \in {"prepare", "many"}
          <6>1. /\ tmpl' = [tmpl EXCEPT ![c] = None] /\ kept' = [kept EXCEPT ![c] = FALSE]
                /\ asOf' = [asOf EXCEPT ![c] = returned]
            BY <2>1, <5>1 DEF Begin
          <6>2. returned \in Nat
            BY DEF TypeOK
          <6> QED
            BY <2>0, <6>1, <6>2 DEF CallTypes
        <5>2. CASE k \notin {"prepare", "many"}
          BY <2>0, <2>1, <5>2 DEF CallTypes, Begin, KeepTemplate
        <5> QED
          BY <5>1, <5>2
      <4> QED
        BY <2>0, <2>1, <3>1, <4>1 DEF CallTypes, Begin, Goto, TypeOK
    <3> QED
      BY <2>1, <2>c, <3>2 DEF Begin, closeVars, TypeOK
  <2>1a. ASSUME NEW c \in Calls, Execute(c) PROVE TypeOK'
    <3>1. 1 \in 0..Chunks
      BY DEF CacheAssumption
    <3>2. CallTypes'
      BY <2>0, <2>1a, <3>1 DEF CallTypes, Execute, KeepTemplate, Goto, TypeOK
    <3> QED
      BY <2>1a, <2>c, <3>2 DEF Execute, closeVars, TypeOK
  <2>2. ASSUME NEW c \in Calls, Peek(c) PROVE TypeOK'
    <3>1. CASE Missing(cache)
      <4>1. CallTypes'
        BY <2>0, <2>2, <3>1, GotoTypes DEF Peek, Awaits
      <4> QED
        BY <2>2, <2>c, <4>1 DEF Peek, Quiet, closeVars, TypeOK
    <3>2. CASE ~Missing(cache)
      <4>1. CallTypes'
        BY <2>0, <2>2, <3>2, UseTypes DEF Peek, TypeOK
      <4> QED
        BY <2>2, <2>c, <4>1 DEF Peek, Quiet, closeVars, TypeOK
    <3> QED
      BY <3>1, <3>2
  <2>3. ASSUME NEW c \in Calls, Exists(c) PROVE TypeOK'
    <3>1. CallTypes'
      BY <2>0, <2>3, GotoTypes, UseTypes, ReturnTypes DEF Exists, Awaits
    <3>2. faults' \in 0..MaxFaults
      BY <2>3, FaultTypes DEF Exists, TypeOK
    <3> QED
      BY <2>3, <2>c, <3>1, <3>2 DEF Exists, Quiet, closeVars, TypeOK
  <2>4. ASSUME NEW c \in Calls, Lookup(c) PROVE TypeOK'
    <3>1. CallTypes'
      BY <2>0, <2>4, GotoTypes, UseTypes DEF Lookup, Awaits, TypeOK
    <3> QED
      BY <2>4, <2>c, <3>1 DEF Lookup, Quiet, closeVars, TypeOK
  <2>5. ASSUME NEW c \in Calls, Fetch(c) PROVE TypeOK'
    <3>1. ASSUME held' = [held EXCEPT ![c] = server], Goto(c, "insert"),
                 UNCHANGED <<kind, left, since, faults>>, KeepTemplate
          PROVE  CallTypes' /\ faults' \in 0..MaxFaults
      BY <2>0, <3>1 DEF CallTypes, Goto, KeepTemplate, TypeOK, Awaits
    <3>2. ASSUME IF GoesWithout(kind[c]) THEN Use(c, None) ELSE Return(c)
          PROVE  CallTypes'
      BY <2>0, <3>2, UseTypes, ReturnTypes
    <3>3. CallTypes' /\ faults' \in 0..MaxFaults
      BY <2>5, <3>1, <3>2, FaultTypes DEF Fetch, TypeOK
    <3> QED
      BY <2>5, <2>c, <3>3 DEF Fetch, Quiet, closeVars, TypeOK
  <2>6. ASSUME NEW c \in Calls, Insert(c) PROVE TypeOK'
    <3>1. held[c] \in Schemas
      BY DEF TypeOK
    <3>2. CallTypes'
      BY <2>0, <2>6, <3>1, UseTypes DEF Insert
    <3> QED
      BY <2>6, <2>c, <3>1, <3>2 DEF Insert, Quiet, closeVars, TypeOK
  <2>7. ASSUME NEW c \in Calls, Ensure(c) PROVE TypeOK'
    <3>1. CallTypes' /\ faults' \in 0..MaxFaults
      BY <2>0, <2>7, GotoTypes, ReturnTypes, FaultTypes DEF Ensure, Awaits, TypeOK
    <3> QED
      BY <2>7, <2>c, <3>1 DEF Ensure, Quiet, closeVars, TypeOK
  <2>8. ASSUME NEW c \in Calls, Make(c) PROVE TypeOK'
    <3>1. CallTypes' /\ faults' \in 0..MaxFaults
      BY <2>0, <2>8, GotoTypes, ReturnTypes, FaultTypes DEF Make, Awaits, TypeOK
    <3>2. server' \in Schemas
      BY <2>8, ChangesAreNames, ChangeIsSchema DEF Make, TypeOK
    <3>3. overlap' \in BOOLEAN
      BY <2>8 DEF Make, Holding, TypeOK
    <3> QED
      BY <2>8, <2>c, <3>1, <3>2, <3>3 DEF Make, closeVars, TypeOK
  <2>9. ASSUME NEW c \in Calls, ServeDdl(c) PROVE TypeOK'
    <3>1. server' \in Schemas
      BY <2>9, ChangesAreNames, ChangeIsSchema DEF ServeDdl, TypeOK
    <3>2. CallTypes' /\ faults' \in 0..MaxFaults
      <4>1. ASSUME Goto(c, "invalidate"), held' = [held EXCEPT ![c] = server'],
                   UNCHANGED <<kind, left, since, faults>>, KeepTemplate
            PROVE  CallTypes' /\ faults' \in 0..MaxFaults
        BY <2>0, <3>1, <4>1 DEF CallTypes, Goto, KeepTemplate, Awaits, TypeOK
      <4> QED
        BY <2>0, <2>9, <4>1, ReturnTypes, FaultTypes DEF ServeDdl, TypeOK
    <3>3. overlap' \in BOOLEAN
      BY <2>9 DEF ServeDdl, Holding, TypeOK
    <3> QED
      BY <2>9, <2>c, <3>1, <3>2, <3>3 DEF ServeDdl, closeVars, TypeOK
  <2>10. ASSUME NEW c \in Calls, Reject(c) PROVE TypeOK'
    <3>1. CallTypes'
      BY <2>0, <2>10, GotoTypes, ReturnTypes DEF Reject
    <3> QED
      BY <2>10, <2>c, <3>1 DEF Reject, Quiet, closeVars, TypeOK
  <2>11. ASSUME NEW c \in Calls, Invalidate(c) PROVE TypeOK'
    <3>1. CallTypes'
      BY <2>0, <2>11, ReturnTypes DEF Invalidate
    <3>2. returned' \in Nat
      <4>1. held[c].ver \in Nat
        BY DEF TypeOK, Schemas
      <4> QED
        BY <2>11, <4>1 DEF Invalidate, TypeOK
    <3> QED
      BY <2>11, <2>c, <3>1, <3>2 DEF Invalidate, closeVars, TypeOK
  <2>12. ASSUME NEW c \in Calls, Serve(c) PROVE TypeOK'
    <3>1. CallTypes'
      BY <2>0, <2>12, GotoTypes, ReturnTypes DEF Serve
    <3> QED
      BY <2>12, <2>c, <3>1 DEF Serve, Quiet, closeVars, TypeOK
  <2>13. ASSUME NEW c \in Calls, NextChunk(c) PROVE TypeOK'
    <3>1. ASSUME left[c] > 0, left' = [left EXCEPT ![c] = left[c] - 1],
                 Goto(c, IF SlowPath(c) THEN "peek" ELSE "send"),
                 held' = [held EXCEPT ![c] = IF SlowPath(c) THEN None ELSE tmpl[c]],
                 UNCHANGED <<kind, since>>, KeepTemplate
          PROVE  CallTypes'
      <4>1. left' \in [Calls -> 0..Chunks]
        BY <2>0, <3>1 DEF CallTypes, CacheAssumption
      <4>2. pc' \in [Calls -> Awaits \cup {"idle", "next", "adrift"}]
        BY <2>0, <3>1 DEF CallTypes, Goto, Awaits
      <4> QED
        BY <2>0, <3>1, <4>1, <4>2 DEF CallTypes, KeepTemplate
    <3>2. CallTypes'
      BY <2>0, <2>13, <3>1, ReturnTypes DEF NextChunk
    <3> QED
      BY <2>13, <2>c, <3>2 DEF NextChunk, Quiet, closeVars, TypeOK
  <2>14. ASSUME NEW c \in Calls, Timeout(c) PROVE TypeOK'
    <3>1. CallTypes' /\ faults' \in 0..MaxFaults
      BY <2>0, <2>14, GotoTypes, ReturnTypes, FaultTypes DEF Timeout, TypeOK
    <3>2. overlap' \in BOOLEAN
      BY <2>14 DEF Timeout, TypeOK
    <3> QED
      BY <2>14, <2>c, <3>1, <3>2 DEF Timeout, closeVars, TypeOK
  <2>15. ASSUME NEW c \in Calls, Land(c) PROVE TypeOK'
    <3>1. server' \in Schemas
      BY <2>15, ChangesAreNames, ChangeIsSchema DEF Land, TypeOK
    <3>2. CallTypes'
      BY <2>0, <2>15, ReturnTypes DEF Land
    <3> QED
      BY <2>15, <2>c, <3>1, <3>2 DEF Land, closeVars, TypeOK
  <2>16. ASSUME NEW k \in Closers, TakeLock(k) \/ Clear(k) \/ CloseBackend(k)
         PROVE  TypeOK'
    <3>1. CallTypes'
      BY <2>0, <2>16 DEF TakeLock, Clear, CloseBackend, callVars, CallTypes
    <3>2. cl' \in [Closers -> {"idle", "clear", "backend", "done"}]
      <4>1. cl' \in {[cl EXCEPT ![k] = place] : place \in {"clear", "backend", "done"}}
        BY <2>16 DEF TakeLock, Clear, CloseBackend
      <4> QED
        BY <4>1 DEF TypeOK
    <3>5. faults' = faults /\ returned' = returned /\ overlap' = overlap /\ server' = server
      BY <2>16 DEF TakeLock, Clear, CloseBackend
    <3>6. cache' \in {cache, None}
      BY <2>16 DEF TakeLock, Clear, CloseBackend
    <3>3. closed' \in BOOLEAN /\ locked' \in BOOLEAN /\ closes' \in Nat
      <4>1. closed \in BOOLEAN /\ locked \in BOOLEAN /\ closes \in Nat
        BY DEF TypeOK
      <4>2. closed' \in {closed, TRUE} /\ locked' \in {locked, FALSE, ~closed}
        BY <2>16, Zenon DEF TakeLock, Clear, CloseBackend
      <4>3. closes' \in {closes, closes + 1}
        BY <2>16 DEF TakeLock, Clear, CloseBackend
      <4> QED
        <5>1. closed' \in BOOLEAN /\ locked' \in BOOLEAN
          BY <4>1, <4>2, Zenon
        <5> QED
          BY <4>1, <4>3, <5>1
    <3>4. server' \in Schemas /\ cache' \in Schemas /\ faults' \in 0..MaxFaults
            /\ returned' \in Nat /\ overlap' \in BOOLEAN
      BY <3>5, <3>6 DEF TypeOK
    <3> QED
      BY <3>1, <3>2, <3>3, <3>4 DEF TypeOK, CallTypes
  <2>17. CASE UNCHANGED vars
    BY <2>0, <2>17 DEF vars, callVars, closeVars, TypeOK, CallTypes
  <2> QED
    <3>1. ASSUME NEW c \in Calls, Step(c) PROVE TypeOK'
      BY <3>1, <2>2, <2>3, <2>4, <2>5, <2>6, <2>7, <2>8, <2>9, <2>10, <2>11,
         <2>12, <2>13 DEF Step
    <3> QED
      BY <3>1, <2>1, <2>1a, <2>14, <2>15, <2>16, <2>17 DEF Next, Over
<1> QED
  BY <1>1, <1>2, PTL DEF Spec
-----------------------------------------------------------------------------
(* Closing. The lock is held exactly while one close is on its way.        *)

Closing(k) == cl[k] \in {"clear", "backend"}

CloseInv ==
  /\ ~closed => /\ ~locked /\ closes = 0
                /\ \A k \in Closers : cl[k] = "idle"
  /\ locked => /\ closes = 0
               /\ \A k \in Closers : cl[k] # "done"
               /\ \A j, k \in Closers : Closing(j) /\ Closing(k) => j = k
  /\ closed /\ ~locked => /\ closes = 1
                         /\ \A k \in Closers : ~Closing(k)

\* CloseIsFinal: when a close has returned the executor is closed for good and
\* its backend was closed once.
THEOREM ClosesOnce == CacheAssumption => (Spec => []CloseIsFinal)
<1> SUFFICES ASSUME CacheAssumption PROVE Spec => []CloseIsFinal
  OBVIOUS
<1>1. Init => CloseInv
  BY DEF Init, CloseInv
<1>2. TypeOK /\ CloseInv /\ [Next]_vars => CloseInv'
  <2> SUFFICES ASSUME TypeOK, CloseInv, [Next]_vars PROVE CloseInv'
    OBVIOUS
  <2>1. ASSUME UNCHANGED closeVars PROVE CloseInv'
    BY <2>1 DEF CloseInv, closeVars, Closing
  <2>2. ASSUME NEW k \in Closers, TakeLock(k) PROVE CloseInv'
    <3>1. CASE closed
      <4>1. cl' = [cl EXCEPT ![k] = "done"] /\ closed' /\ ~locked' /\ closes' = closes
        BY <2>2, <3>1 DEF TakeLock
      <4>2. closes = 1 /\ \A j \in Closers : ~Closing(j)
        BY <2>2, <3>1 DEF TakeLock, CloseInv
      <4> QED
        BY <4>1, <4>2 DEF CloseInv, Closing, TypeOK
    <3>2. CASE ~closed
      <4>1. cl' = [cl EXCEPT ![k] = "clear"] /\ closed' /\ locked' /\ closes' = closes
        BY <2>2, <3>2 DEF TakeLock
      <4>2. closes = 0 /\ \A j \in Closers : cl[j] = "idle"
        BY <3>2 DEF CloseInv
      <4> QED
        BY <4>1, <4>2 DEF CloseInv, Closing, TypeOK
    <3> QED
      BY <3>1, <3>2
  <2>3. ASSUME NEW k \in Closers, Clear(k) PROVE CloseInv'
    <3>1. cl' = [cl EXCEPT ![k] = "backend"] /\ UNCHANGED <<closed, locked, closes>>
      BY <2>3 DEF Clear
    <3>2. closed /\ locked
      BY <2>3 DEF Clear, CloseInv, Closing, TypeOK
    <3> QED
      BY <2>3, <3>1, <3>2 DEF Clear, CloseInv, Closing, TypeOK
  <2>4. ASSUME NEW k \in Closers, CloseBackend(k) PROVE CloseInv'
    <3>1. closed /\ locked /\ Closing(k)
      BY <2>4 DEF CloseBackend, CloseInv, Closing, TypeOK
    <3>2. closes = 0 /\ \A j \in Closers : Closing(j) => j = k
      BY <3>1 DEF CloseInv
    <3>3. closed' /\ ~locked' /\ closes' = 1 /\ cl' = [cl EXCEPT ![k] = "done"]
      BY <2>4, <3>1, <3>2 DEF CloseBackend
    <3> QED
      BY <3>2, <3>3 DEF CloseInv, Closing, TypeOK
  <2>5. ASSUME NEW c \in Calls, Step(c) PROVE UNCHANGED closeVars
    BY <2>5 DEF Step, Peek, Exists, Lookup, Fetch, Insert, Ensure, Make, ServeDdl,
       Reject, Invalidate, Serve, NextChunk, Quiet
  <2>6. ASSUME NEW c \in Calls,
               Timeout(c) \/ Land(c) \/ Execute(c) \/ \E k \in Kinds[c] : Begin(c, k)
        PROVE  UNCHANGED closeVars
    BY <2>6 DEF Timeout, Land, Execute, Begin
  <2>7. CASE UNCHANGED vars
    BY <2>1, <2>7 DEF vars
  <2> QED
    BY <2>1, <2>2, <2>3, <2>4, <2>5, <2>6, <2>7 DEF Next, Over
<1>3. TypeOK /\ CloseInv => CloseIsFinal
  BY DEF TypeOK, CloseInv, CloseIsFinal, Closing
<1> QED
  BY <1>1, <1>2, <1>3, TypeInvariant, PTL DEF Spec

-----------------------------------------------------------------------------
(* The cache. Without an overlap a fetched schema is still the server's    *)
(* when it is inserted, and nothing older than a returned DDL is left.     *)

\* Where a call has no schema of its own yet.
Looking == {"peek", "exists", "lookup", "fetch", "insert"}

\* What holds of each call: when it began and prepared, where it looks a schema
\* up, and what it goes by.
CallInv(c) ==
  /\ since[c] <= returned
  /\ pc[c] = "invalidate" => held[c].ver <= server.ver
  /\ pc[c] = "idle" => Missing(held[c])
  /\ kind[c] \in {"prepare", "many"} => asOf[c] <= since[c]
  /\ pc[c] \in Looking => ~ByTemplate(c)
  /\ pc[c] = "next" => kind[c] = "chunk"
  /\ overlap \/ (pc[c] = "insert" => held[c] = server)
  /\ overlap \/ Recent(c)

CachedIsRecent == overlap \/ Missing(cache) \/ cache.ver >= returned

CacheInv ==
  /\ returned <= server.ver
  /\ \A c \in Calls : CallInv(c)
  /\ CachedIsRecent /\ Fresh

\* A step of call c leaves the other calls where they were.
Alone(c) ==
  \A d \in Calls \ {c} :
     /\ pc'[d] = pc[d] /\ kind'[d] = kind[d] /\ since'[d] = since[d]
     /\ held'[d] = held[d] /\ tmpl'[d] = tmpl[d] /\ asOf'[d] = asOf[d]

LEMMA LeaveIsAlone ==
  ASSUME TypeOK, NEW c \in Calls, Leave(c)
  PROVE  /\ pc'[c] = "idle" /\ kind'[c] = "none" /\ held'[c] = None /\ since'[c] = 0
         /\ \A d \in Calls \ {c} : /\ pc'[d] = pc[d] /\ kind'[d] = kind[d]
                                   /\ held'[d] = held[d] /\ since'[d] = since[d]
  BY DEF Leave, Goto, TypeOK

LEMMA ReturnIsAlone ==
  ASSUME TypeOK, NEW c \in Calls, Return(c)
  PROVE  /\ Alone(c) /\ pc'[c] = "idle" /\ kind'[c] = "none"
         /\ held'[c] = None /\ since'[c] = 0
         /\ tmpl'[c] = None \/ (tmpl'[c] = tmpl[c] /\ asOf'[c] = asOf[c])
<1>1. Leave(c)
  BY DEF Return
<1>2. \A d \in Calls \ {c} : tmpl'[d] = tmpl[d] /\ asOf'[d] = asOf[d]
  BY DEF Return, TypeOK
<1>3. tmpl'[c] = None \/ (tmpl'[c] = tmpl[c] /\ asOf'[c] = asOf[c])
  BY DEF Return, TypeOK
<1> QED
  BY <1>1, <1>2, <1>3, LeaveIsAlone DEF Alone

LEMMA UseIsAlone ==
  ASSUME TypeOK, NEW c \in Calls, NEW s, Use(c, s)
  PROVE  /\ Alone(c) /\ pc'[c] \in {"idle", "ensure", "next", "send"} /\ asOf'[c] = asOf[c]
         /\ \/ /\ kind[c] = "prepare" /\ pc'[c] = "idle" /\ kind'[c] = "none"
               /\ held'[c] = None /\ tmpl'[c] = s /\ since'[c] = 0
            \/ /\ kind[c] = "many" /\ pc'[c] = "next" /\ kind'[c] = "chunk"
               /\ held'[c] = held[c] /\ tmpl'[c] = s /\ since'[c] = since[c]
            \/ /\ kind[c] \notin {"prepare", "many"} /\ pc'[c] \in {"ensure", "send"}
               /\ kind'[c] = kind[c] /\ held'[c] = s
               /\ tmpl'[c] = tmpl[c] /\ since'[c] = since[c]
<1>1. CASE kind[c] = "prepare"
  <2>1. Leave(c) /\ tmpl' = [tmpl EXCEPT ![c] = s] /\ asOf' = asOf
    BY <1>1 DEF Use
  <2> QED
    BY <1>1, <2>1, LeaveIsAlone DEF Alone, TypeOK
<1>2. CASE kind[c] = "many"
  BY <1>2 DEF Use, Goto, Alone, TypeOK
<1>3. CASE kind[c] \notin {"prepare", "many"}
  BY <1>3 DEF Use, Goto, KeepTemplate, Alone, TypeOK
<1> QED
  BY <1>1, <1>2, <1>3

LEMMA GotoIsAlone ==
  ASSUME TypeOK, NEW c \in Calls, NEW place, Goto(c, place), Keep
  PROVE  /\ Alone(c) /\ pc'[c] = place
         /\ UNCHANGED <<kind, held, since, tmpl, asOf>>
  BY DEF Goto, Keep, KeepTemplate, Alone, TypeOK

\* What no step of another call takes from a call: it only loses the fetched
\* schema's currency, which the step then puts on record.
LEMMA OthersKept ==
  ASSUME TypeOK, TypeOK', NEW c \in Calls, Alone(c), \A d \in Calls : CallInv(d),
         CallInv(c)', overlap => overlap', returned' >= returned,
         server'.ver >= server.ver,
         \/ overlap'
         \/ server' = server
         \/ \A d \in Calls \ {c} : pc[d] # "insert"
  PROVE  \A d \in Calls : CallInv(d)'
<1> SUFFICES ASSUME NEW d \in Calls \ {c} PROVE CallInv(d)'
  OBVIOUS
<1>1. CallInv(d)
  OBVIOUS
<1>2. /\ pc'[d] = pc[d] /\ kind'[d] = kind[d] /\ since'[d] = since[d]
      /\ held'[d] = held[d] /\ tmpl'[d] = tmpl[d] /\ asOf'[d] = asOf[d]
  BY DEF Alone
<1>3. /\ returned \in Nat /\ returned' \in Nat /\ since[d] \in Nat
      /\ server.ver \in Nat /\ server'.ver \in Nat /\ held[d].ver \in Nat
  BY DEF TypeOK, Schemas
<1>4. (Recent(d)' <=> Recent(d)) /\ (ByTemplate(d)' <=> ByTemplate(d))
  BY <1>2 DEF Recent, ByTemplate, SlowPath, Missing
<1>5. since'[d] <= returned' /\ (pc'[d] = "invalidate" => held'[d].ver <= server'.ver)
  BY <1>1, <1>2, <1>3 DEF CallInv
<1>6. /\ pc'[d] = "idle" => Missing(held'[d])
      /\ kind'[d] \in {"prepare", "many"} => asOf'[d] <= since'[d]
      /\ pc'[d] \in Looking => ~ByTemplate(d)'
      /\ pc'[d] = "next" => kind'[d] = "chunk"
  BY <1>1, <1>2, <1>4 DEF CallInv
<1>7. overlap' \/ (pc'[d] = "insert" => held'[d] = server')
  BY <1>1, <1>2 DEF CallInv
<1>8. overlap' \/ Recent(d)'
  BY <1>1, <1>4 DEF CallInv
<1> QED
  BY <1>5, <1>6, <1>7, <1>8 DEF CallInv, Missing

\* A step that leaves server, cache and history alone.
LEMMA QuietMove ==
  ASSUME TypeOK, TypeOK', CacheInv, NEW c \in Calls, Alone(c), CallInv(c)',
         UNCHANGED <<server, cache, returned, overlap>>,
         pc[c] # "invalidate"
  PROVE  CacheInv'
<1>1. server.ver >= server.ver /\ returned >= returned
  BY DEF TypeOK, Schemas
<1>2. \A d \in Calls : CallInv(d)'
  BY <1>1, OthersKept DEF CacheInv
<1>3. CachedIsRecent'
  BY DEF CacheInv, CachedIsRecent, Missing
<1>4. Fresh'
  BY DEF CacheInv, Fresh, Alone, Missing
<1> QED
  BY <1>2, <1>3, <1>4 DEF CacheInv

\* A step after which an overlap is on record.
LEMMA OverlapMove ==
  ASSUME TypeOK, TypeOK', CacheInv, NEW c \in Calls, Alone(c), CallInv(c)',
         overlap', returned' = returned, server'.ver >= server.ver
  PROVE  CacheInv'
<1>1. server.ver \in Nat /\ server'.ver \in Nat /\ returned \in Nat
  BY DEF TypeOK, Schemas
<1>2. \A d \in Calls : CallInv(d)'
  BY <1>1, OthersKept DEF CacheInv
<1> QED
  BY <1>1, <1>2 DEF CacheInv, CachedIsRecent, Fresh

\* A change of the schema no fetched and pending entry is older than, and which
\* an invalidation follows or an empty cache precedes.
LEMMA ChangeMove ==
  ASSUME TypeOK, TypeOK', CacheInv, NEW c \in Calls, Alone(c), CallInv(c)',
         UNCHANGED <<cache, returned>>, server'.ver = server.ver + 1,
         overlap' = (overlap \/ Holding(c)),
         pc[c] # "invalidate",
         pc'[c] = "invalidate" \/ Missing(server)
  PROVE  CacheInv'
<1>0. server.ver \in Nat /\ server'.ver \in Nat /\ returned \in Nat
  BY DEF TypeOK, Schemas
<1>1. CASE overlap'
  BY <1>0, <1>1, OverlapMove
<1>2. CASE ~overlap'
  <2>1. ~overlap /\ \A d \in Calls \ {c} : pc[d] # "insert"
    BY <1>2 DEF Holding
  <2>2. \A d \in Calls : CallInv(d)'
    BY <1>0, <2>1, OthersKept DEF CacheInv
  <2>3. CachedIsRecent'
    BY <2>1 DEF CacheInv, CachedIsRecent, Missing
  <2>4. Fresh'
    BY <2>1 DEF CacheInv, Fresh, Alone, Missing
  <2> QED
    BY <1>0, <2>2, <2>3, <2>4 DEF CacheInv
<1> QED
  BY <1>1, <1>2

\* The invariant of the cache holds at all times.
LEMMA CacheInvariant == CacheAssumption => (Spec => []CacheInv)
<1> SUFFICES ASSUME CacheAssumption PROVE Spec => []CacheInv
  OBVIOUS
<1>1. Init => CacheInv
  <2> SUFFICES ASSUME Init PROVE CacheInv
    OBVIOUS
  <2>1. Missing(None) /\ server.ver = 0
    BY NoneIsSchema DEF Init
  <2> QED
    BY <2>1 DEF Init, CacheInv, CallInv, CachedIsRecent, Fresh, Recent, ByTemplate, Looking
<1>2. TypeOK /\ TypeOK' /\ CacheInv /\ [Next]_vars => CacheInv'
  <2> SUFFICES ASSUME TypeOK, TypeOK', CacheInv, [Next]_vars PROVE CacheInv'
    OBVIOUS
  <2> USE NoneIsSchema
  <2>0. server.ver \in Nat /\ returned \in Nat /\ returned <= server.ver
    BY DEF TypeOK, Schemas, CacheInv
  <2>n. ASSUME NEW c \in Calls
        PROVE  /\ CallInv(c) /\ since[c] \in Nat /\ asOf[c] \in Nat
               /\ held[c].ver \in Nat /\ tmpl[c].ver \in Nat
               /\ since[c] <= returned /\ since[c] <= server.ver
    BY <2>0 DEF TypeOK, Schemas, CacheInv, CallInv
  <2>c. ASSUME NEW c \in Calls PROVE overlap \/ Missing(cache) \/ cache.ver >= since[c]
    <3>1. cache.ver \in Nat
      BY DEF TypeOK, Schemas
    <3> QED
      BY <2>0, <2>n, <3>1 DEF CacheInv, CachedIsRecent
  <2>r. ASSUME NEW c \in Calls, Return(c), returned' \in Nat, overlap => overlap'
        PROVE  Alone(c) /\ CallInv(c)'
    <3>1. /\ Alone(c) /\ pc'[c] = "idle" /\ kind'[c] = "none"
          /\ held'[c] = None /\ since'[c] = 0
          /\ tmpl'[c] = None \/ (tmpl'[c] = tmpl[c] /\ asOf'[c] = asOf[c])
      BY <2>r, ReturnIsAlone
    <3>2. overlap' \/ Recent(c)'
      BY <2>r, <2>n, <3>1 DEF CallInv, Recent, ByTemplate, Missing
    <3> QED
      BY <2>r, <3>1, <3>2 DEF CallInv, Looking
  <2>u. ASSUME NEW c \in Calls, NEW s \in Schemas, Use(c, s), pc[c] \in Looking,
               UNCHANGED <<returned, overlap>>,
               overlap \/ Missing(s) \/ s.ver >= since[c]
        PROVE  Alone(c) /\ CallInv(c)'
    <3>1. Alone(c) /\ pc'[c] \in {"idle", "ensure", "next", "send"} /\ asOf'[c] = asOf[c]
      BY <2>u, UseIsAlone
    <3>2. s.ver \in Nat
      BY DEF Schemas
    <3>3. ~ByTemplate(c) /\ (overlap \/ Recent(c))
      BY <2>n, <2>u DEF CallInv
    <3>4. /\ pc'[c] = "idle" => Missing(held'[c])
          /\ since'[c] <= returned'
          /\ kind'[c] \notin {"prepare", "many"}
          /\ pc'[c] = "next" => kind'[c] = "chunk"
          /\ overlap' \/ Recent(c)'
      <4>1. CASE kind[c] = "prepare"
        <5>1. /\ pc'[c] = "idle" /\ kind'[c] = "none" /\ held'[c] = None
              /\ tmpl'[c] = s /\ since'[c] = 0
              /\ asOf[c] <= since[c]
          BY <2>u, <2>n, <4>1, UseIsAlone DEF CallInv
        <5> QED
          BY <2>0, <2>n, <2>u, <3>1, <3>2, <5>1 DEF Recent, ByTemplate, Missing
      <4>2. CASE kind[c] = "many"
        <5>1. /\ pc'[c] = "next" /\ kind'[c] = "chunk" /\ held'[c] = held[c]
              /\ tmpl'[c] = s /\ since'[c] = since[c] /\ asOf[c] <= since[c]
          BY <2>u, <2>n, <4>2, UseIsAlone DEF CallInv
        <5>2. overlap \/ Missing(held[c]) \/ held[c].ver >= since[c]
          BY <3>3 DEF Recent
        <5>3. overlap \/ Missing(held'[c]) \/ held'[c].ver >= IF ByTemplate(c)' THEN asOf'[c] ELSE since'[c]
          BY <2>n, <3>1, <5>1, <5>2 DEF Missing
        <5>4. overlap \/ Missing(tmpl'[c]) \/ tmpl'[c].ver >= asOf'[c]
          BY <2>n, <2>u, <3>1, <3>2, <5>1 DEF Missing
        <5> QED
          BY <2>n, <2>u, <5>1, <5>3, <5>4 DEF Recent
      <4>3. CASE kind[c] \notin {"prepare", "many"}
        <5>1. /\ pc'[c] \in {"ensure", "send"} /\ kind'[c] = kind[c] /\ held'[c] = s
              /\ tmpl'[c] = tmpl[c] /\ since'[c] = since[c]
          BY <2>u, <4>3, UseIsAlone
        <5>2. ~ByTemplate(c)'
          BY <3>3, <5>1 DEF ByTemplate, SlowPath, Missing
        <5>3. overlap' \/ Recent(c)'
          BY <2>u, <3>1, <3>3, <5>1, <5>2 DEF Recent, Missing
        <5> QED
          BY <2>n, <2>u, <4>3, <5>1, <5>3
      <4> QED
        BY <4>1, <4>2, <4>3
    <3> QED
      BY <3>1, <3>4 DEF CallInv, Looking
  <2>g. ASSUME NEW c \in Calls, NEW place, Goto(c, place), Keep,
               place \notin {"insert", "invalidate", "idle"},
               pc[c] \in Looking \/ place \notin Looking,
               place = "next" => kind[c] = "chunk",
               UNCHANGED returned, overlap => overlap'
        PROVE  Alone(c) /\ CallInv(c)'
    <3>1. Alone(c) /\ pc'[c] = place /\ UNCHANGED <<kind, held, since, tmpl, asOf>>
      BY <2>g, GotoIsAlone
    <3>2. (ByTemplate(c)' <=> ByTemplate(c)) /\ (Recent(c)' <=> Recent(c))
      BY <3>1 DEF ByTemplate, SlowPath, Recent, Missing
    <3> QED
      BY <2>g, <2>n, <3>1, <3>2 DEF CallInv, Missing
  <2>b. ASSUME NEW c \in Calls, pc[c] = "idle", UNCHANGED <<held, returned, overlap>>,
               since'[c] = returned, pc'[c] \notin {"idle", "insert", "invalidate"},
               tmpl'[c] = None \/ (tmpl'[c] = tmpl[c] /\ asOf'[c] = asOf[c]),
               kind'[c] \in {"prepare", "many"} => asOf'[c] = returned,
               pc'[c] \in Looking => kind'[c] # "chunk",
               pc'[c] = "next" => kind'[c] = "chunk"
        PROVE  CallInv(c)'
    <3>1. Missing(held'[c])
      BY <2>b, <2>n DEF CallInv, Missing
    <3>2. overlap' \/ Recent(c)'
      BY <2>b, <2>n, <3>1 DEF CallInv, Recent, Missing
    <3> QED
      BY <2>0, <2>b, <3>1, <3>2 DEF CallInv, ByTemplate
  <2>1. ASSUME NEW c \in Calls, NEW k \in Kinds[c], Begin(c, k) PROVE CacheInv'
    <3>1. /\ pc[c] = "idle" /\ UNCHANGED <<server, cache, held, returned, overlap>>
          /\ since'[c] = returned /\ kind'[c] = k /\ pc'[c] = First(k)
      BY <2>1 DEF Begin, Goto, TypeOK
    <3>2. /\ tmpl'[c] = None \/ (tmpl'[c] = tmpl[c] /\ asOf'[c] = asOf[c])
          /\ k \in {"prepare", "many"} => asOf'[c] = returned
      BY <2>1 DEF Begin, KeepTemplate, TypeOK
    <3>3. Alone(c)
      <4>1. \A d \in Calls \ {c} : tmpl'[d] = tmpl[d] /\ asOf'[d] = asOf[d]
        BY <2>1 DEF Begin, KeepTemplate, TypeOK
      <4> QED
        BY <2>1, <4>1 DEF Begin, Goto, Alone, TypeOK
    <3>4. First(k) \notin {"idle", "insert", "invalidate", "next"}
      BY DEF First
    <3>5. k # "chunk"
      BY DEF CacheAssumption, Operations
    <3> QED
      BY <3>1, <3>2, <3>3, <3>4, <3>5, <2>b, QuietMove
  <2>1a. ASSUME NEW c \in Calls, Execute(c) PROVE CacheInv'
    <3>1. /\ pc[c] = "idle" /\ UNCHANGED <<server, cache, held, returned, overlap, tmpl, asOf>>
          /\ since'[c] = returned /\ kind'[c] = "chunk" /\ pc'[c] = "next" /\ Alone(c)
      BY <2>1a DEF Execute, Goto, KeepTemplate, Alone, TypeOK
    <3> QED
      BY <3>1, <2>b, QuietMove DEF Looking
  <2>2. ASSUME NEW c \in Calls, Peek(c) PROVE CacheInv'
    <3>1. UNCHANGED <<server, cache, returned, overlap>> /\ pc[c] = "peek"
      BY <2>2 DEF Peek, Quiet
    <3>2. Alone(c) /\ CallInv(c)'
      <4>1. pc[c] \in Looking /\ "exists" \notin {"insert", "invalidate", "idle"} /\ cache \in Schemas
        BY <3>1 DEF Looking, TypeOK
      <4> QED
        BY <2>2, <3>1, <4>1, <2>c, <2>g, <2>u DEF Peek
    <3> QED
      BY <3>1, <3>2, QuietMove
  <2>3. ASSUME NEW c \in Calls, Exists(c) PROVE CacheInv'
    <3>1. UNCHANGED <<server, cache, returned, overlap>> /\ pc[c] = "exists"
      BY <2>3 DEF Exists, Quiet
    <3>2. Alone(c) /\ CallInv(c)'
      <4>1. pc[c] \in Looking /\ "lookup" \notin {"insert", "invalidate", "idle"}
        BY <3>1 DEF Looking
      <4> QED
        BY <2>0, <2>3, <3>1, <4>1, <2>g, <2>u, <2>r DEF Exists
    <3> QED
      BY <3>1, <3>2, QuietMove
  <2>4. ASSUME NEW c \in Calls, Lookup(c) PROVE CacheInv'
    <3>1. UNCHANGED <<server, cache, returned, overlap>> /\ pc[c] = "lookup"
      BY <2>4 DEF Lookup, Quiet
    <3>2. Alone(c) /\ CallInv(c)'
      <4>1. pc[c] \in Looking /\ "fetch" \notin {"insert", "invalidate", "idle"} /\ cache \in Schemas
        BY <3>1 DEF Looking, TypeOK
      <4> QED
        BY <2>4, <3>1, <4>1, <2>c, <2>g, <2>u DEF Lookup
    <3> QED
      BY <3>1, <3>2, QuietMove
  <2>5. ASSUME NEW c \in Calls, Fetch(c) PROVE CacheInv'
    <3>1. UNCHANGED <<server, cache, returned, overlap>> /\ pc[c] = "fetch"
      BY <2>5 DEF Fetch, Quiet
    <3>2. ASSUME held' = [held EXCEPT ![c] = server], Goto(c, "insert"),
                 UNCHANGED <<kind, left, since, faults>>, KeepTemplate
          PROVE  Alone(c) /\ CallInv(c)'
      <4>1. /\ Alone(c) /\ pc'[c] = "insert" /\ held'[c] = server
            /\ UNCHANGED <<kind, since, tmpl, asOf>>
        BY <3>2 DEF Alone, Goto, KeepTemplate, TypeOK
      <4>2. ~ByTemplate(c) /\ (overlap \/ Recent(c))
        BY <2>n, <3>1 DEF CallInv, Looking
      <4>3. ~ByTemplate(c)'
        BY <4>1, <4>2 DEF ByTemplate, SlowPath, Missing
      <4>4. overlap' \/ Recent(c)'
        BY <2>n, <3>1, <4>1, <4>2, <4>3 DEF Recent, Missing
      <4> QED
        BY <2>n, <3>1, <4>1, <4>3, <4>4 DEF CallInv
    <3>3. Alone(c) /\ CallInv(c)'
      <4>1. pc[c] \in Looking
        BY <3>1 DEF Looking
      <4> QED
        BY <2>0, <2>5, <3>1, <3>2, <4>1, <2>u, <2>r DEF Fetch
    <3> QED
      BY <3>1, <3>3, QuietMove
  <2>6. ASSUME NEW c \in Calls, Insert(c) PROVE CacheInv'
    <3>1. /\ UNCHANGED <<server, returned, overlap>> /\ pc[c] = "insert"
          /\ cache' = held[c]
      BY <2>6 DEF Insert, Quiet
    <3>2. held[c] \in Schemas /\ pc[c] \in Looking /\ ~ByTemplate(c) /\ (overlap \/ Recent(c))
      BY <2>n, <3>1 DEF Looking, CallInv, TypeOK
    <3>3. overlap \/ Missing(held[c]) \/ held[c].ver >= since[c]
      BY <3>2 DEF Recent
    <3>4. Alone(c) /\ CallInv(c)'
      BY <2>6, <3>1, <3>2, <3>3, <2>u DEF Insert
    <3>5. overlap \/ held[c] = server
      BY <2>n, <3>1 DEF CallInv
    <3>6. CASE overlap
      BY <2>0, <3>1, <3>4, <3>6, OverlapMove
    <3>7. CASE ~overlap
      <4>1. \A d \in Calls : CallInv(d)'
        BY <2>0, <3>1, <3>4, OthersKept DEF CacheInv
      <4>2. CachedIsRecent' /\ Fresh'
        BY <2>0, <3>1, <3>5, <3>7 DEF CachedIsRecent, Fresh
      <4> QED
        BY <2>0, <3>1, <4>1, <4>2 DEF CacheInv
    <3> QED
      BY <3>6, <3>7
  <2>7. ASSUME NEW c \in Calls, Ensure(c) PROVE CacheInv'
    <3>1. UNCHANGED <<server, cache, returned, overlap>> /\ pc[c] = "ensure"
      BY <2>7 DEF Ensure, Quiet
    <3>2. Alone(c) /\ CallInv(c)'
      BY <2>0, <2>7, <3>1, <2>g, <2>r DEF Ensure, Looking
    <3> QED
      BY <3>1, <3>2, QuietMove
  <2>8. ASSUME NEW c \in Calls, Make(c) PROVE CacheInv'
    <3>1. UNCHANGED <<cache, returned>> /\ pc[c] = "make"
      BY <2>8 DEF Make
    <3>2. (overlap => overlap') /\ returned' \in Nat
      <4>1. overlap => overlap'
        BY <2>8, Zenon DEF Make
      <4> QED
        BY <2>0, <3>1, <4>1
    <3>3. Alone(c) /\ CallInv(c)'
      BY <2>8, <3>1, <3>2, <2>g, <2>r DEF Make, Looking
    <3>4. CASE Missing(server)
      <4>1. server'.ver = server.ver + 1 /\ overlap' = (overlap \/ Holding(c))
        BY <2>8, <3>4, ChangesAreNames, ChangeIsSchema DEF Make, TypeOK
      <4> QED
        BY <3>1, <3>3, <3>4, <4>1, ChangeMove
    <3>5. CASE ~Missing(server)
      BY <2>8, <3>1, <3>3, <3>5, QuietMove DEF Make
    <3> QED
      BY <3>4, <3>5
  <2>9. ASSUME NEW c \in Calls, ServeDdl(c) PROVE CacheInv'
    <3>1. UNCHANGED <<cache, returned>> /\ pc[c] = "send" /\ (overlap => overlap')
      BY <2>9 DEF ServeDdl
    <3>2. server'.ver = server.ver + 1
      BY <2>9, ChangesAreNames, ChangeIsSchema DEF ServeDdl, TypeOK
    <3>3. CASE /\ Goto(c, "invalidate") /\ held' = [held EXCEPT ![c] = server']
               /\ overlap' = (overlap \/ Holding(c))
               /\ UNCHANGED <<kind, left, since, faults>> /\ KeepTemplate
      <4>1. /\ Alone(c) /\ pc'[c] = "invalidate" /\ held'[c] = server'
            /\ UNCHANGED <<kind, tmpl, since, asOf>>
        BY <3>3 DEF Alone, Goto, KeepTemplate, TypeOK
      <4>2. kind[c] \in DDL /\ kind[c] \notin {"chunk", "prepare", "many"}
        BY <2>9 DEF ServeDdl, DDL
      <4>3. server'.ver >= since[c] /\ server'.ver <= server'.ver /\ ~ByTemplate(c)'
        BY <2>0, <2>n, <3>2, <4>1, <4>2 DEF ByTemplate
      <4>4. overlap' \/ Recent(c)'
        BY <2>n, <3>1, <4>1, <4>3 DEF CallInv, Recent, Missing
      <4>5. CallInv(c)'
        BY <2>n, <3>1, <4>1, <4>2, <4>3, <4>4 DEF CallInv, Looking
      <4> QED
        BY <3>1, <3>2, <3>3, <4>1, <4>5, ChangeMove
    <3>4. CASE Return(c) /\ overlap'
      <4>1. Alone(c) /\ CallInv(c)'
        BY <2>0, <3>1, <3>4, <2>r
      <4> QED
        BY <2>0, <3>1, <3>2, <3>4, <4>1, OverlapMove
    <3> QED
      BY <2>9, <3>3, <3>4 DEF ServeDdl
  <2>10. ASSUME NEW c \in Calls, Reject(c) PROVE CacheInv'
    <3>1. UNCHANGED <<server, cache, returned, overlap>> /\ pc[c] \in {"ensure", "send"}
      BY <2>10 DEF Reject, Quiet
    <3>2. Alone(c) /\ CallInv(c)'
      BY <2>0, <2>10, <3>1, <2>g, <2>r DEF Reject, Looking
    <3> QED
      BY <3>1, <3>2, QuietMove
  <2>11. ASSUME NEW c \in Calls, Invalidate(c) PROVE CacheInv'
    <3>1. /\ pc[c] = "invalidate" /\ cache' = None /\ Return(c)
          /\ UNCHANGED <<server, overlap>>
          /\ returned' \in {held[c].ver, returned}
      BY <2>11 DEF Invalidate
    <3>2. returned' \in Nat /\ returned' >= returned /\ returned' <= server.ver
      <4>1. held[c].ver \in Nat /\ held[c].ver <= server.ver
        BY <2>n, <3>1 DEF CallInv
      <4> QED
        BY <2>0, <2>11, <4>1 DEF Invalidate
    <3>3. Alone(c) /\ CallInv(c)'
      BY <3>1, <3>2, <2>r
    <3>4. \A d \in Calls : CallInv(d)'
      BY <2>0, <3>1, <3>2, <3>3, OthersKept DEF CacheInv
    <3>5. CachedIsRecent' /\ Fresh'
      BY <3>1 DEF CachedIsRecent, Fresh, Missing
    <3> QED
      BY <3>1, <3>2, <3>4, <3>5 DEF CacheInv
  <2>12. ASSUME NEW c \in Calls, Serve(c) PROVE CacheInv'
    <3>1. UNCHANGED <<server, cache, returned, overlap>> /\ pc[c] = "send"
      BY <2>12 DEF Serve, Quiet
    <3>2. Alone(c) /\ CallInv(c)'
      BY <2>0, <2>12, <3>1, <2>g, <2>r DEF Serve, Looking
    <3> QED
      BY <3>1, <3>2, QuietMove
  <2>13. ASSUME NEW c \in Calls, NextChunk(c) PROVE CacheInv'
    <3>1. UNCHANGED <<server, cache, returned, overlap>> /\ pc[c] = "next"
      BY <2>13 DEF NextChunk, Quiet
    <3>2. CASE Return(c)
      BY <2>0, <3>1, <3>2, <2>r, QuietMove
    <3>3. CASE /\ Goto(c, IF SlowPath(c) THEN "peek" ELSE "send")
               /\ held' = [held EXCEPT ![c] = IF SlowPath(c) THEN None ELSE tmpl[c]]
               /\ UNCHANGED <<kind, since>> /\ KeepTemplate
      <4>1. /\ Alone(c) /\ UNCHANGED <<kind, tmpl, since, asOf>>
            /\ pc'[c] = IF SlowPath(c) THEN "peek" ELSE "send"
            /\ held'[c] = IF SlowPath(c) THEN None ELSE tmpl[c]
        BY <3>3 DEF Alone, Goto, KeepTemplate, TypeOK
      <4>2. /\ SlowPath(c)' <=> SlowPath(c)
            /\ ByTemplate(c)' <=> kind[c] = "chunk" /\ ~SlowPath(c)
        BY <4>1 DEF ByTemplate, SlowPath, Missing
      <4>3. kind[c] = "chunk"
        BY <2>n, <3>1 DEF CallInv
      <4>4. overlap' \/ Recent(c)'
        BY <2>n, <3>1, <4>1, <4>2, <4>3 DEF CallInv, Recent, Missing
      <4>5. CallInv(c)'
        BY <2>n, <3>1, <4>1, <4>2, <4>4 DEF CallInv, Looking, Missing
      <4> QED
        BY <3>1, <4>1, <4>5, QuietMove
    <3> QED
      BY <2>13, <3>2, <3>3 DEF NextChunk
  <2>14. ASSUME NEW c \in Calls, Timeout(c) PROVE CacheInv'
    <3>1. /\ UNCHANGED <<server, cache, returned>>
          /\ overlap' = (overlap \/ pc[c] = "invalidate")
      BY <2>14 DEF Timeout
    <3>0. overlap => overlap'
      BY <3>1, Zenon
    <3>2. Alone(c) /\ CallInv(c)'
      <4>1. pc[c] # "idle" /\ returned' \in Nat
        BY <2>0, <2>14, <3>1 DEF Timeout, Awaits
      <4>2. \/ Return(c)
            \/ \E place \in {"adrift", "next"} :
                 (place = "next" => kind[c] = "chunk") /\ Goto(c, place) /\ Keep
        BY <2>14, Zenon DEF Timeout
      <4>3. ASSUME NEW place \in {"adrift", "next"}, place = "next" => kind[c] = "chunk",
                   Goto(c, place), Keep
            PROVE  Alone(c) /\ CallInv(c)'
        <5>1. /\ place \notin {"insert", "invalidate", "idle"} /\ place \notin Looking
              /\ UNCHANGED returned
          BY <3>1, <4>3 DEF Looking
        <5> QED
          BY <4>3, <5>1, <3>0, <2>g
      <4> QED
        <5>1. CASE Return(c)
          BY <4>1, <5>1, <3>0, <2>r
        <5> QED
          BY <4>2, <4>3, <5>1
    <3>3. CASE pc[c] = "invalidate"
      <4>1. overlap'
        BY <3>1, <3>3, Zenon
      <4>2. server'.ver >= server.ver /\ returned' = returned
        BY <2>0, <3>1
      <4> QED
        BY <3>2, <4>1, <4>2, OverlapMove
    <3>4. CASE pc[c] # "invalidate"
      <4>1. overlap' = overlap
        BY <3>1, <3>4 DEF TypeOK
      <4> QED
        BY <3>1, <3>2, <3>4, <4>1, QuietMove
    <3> QED
      BY <3>3, <3>4
  <2>15. ASSUME NEW c \in Calls, Land(c) PROVE CacheInv'
    <3>1. UNCHANGED <<cache, returned>> /\ overlap' /\ Return(c)
      BY <2>15 DEF Land
    <3>2. server'.ver = server.ver + 1
      BY <2>15, ChangesAreNames, ChangeIsSchema DEF Land, TypeOK
    <3>3. Alone(c) /\ CallInv(c)'
      BY <2>0, <3>1, <2>r
    <3>4. server'.ver >= server.ver /\ returned' = returned
      BY <2>0, <3>1, <3>2
    <3> QED
      BY <3>1, <3>3, <3>4, OverlapMove
  <2>16. ASSUME NEW k \in Closers, TakeLock(k) \/ Clear(k) \/ CloseBackend(k)
         PROVE  CacheInv'
    <3>1. UNCHANGED <<server, callVars, returned, overlap>> /\ cache' \in {cache, None}
      BY <2>16 DEF TakeLock, Clear, CloseBackend
    <3> QED
      BY <3>1 DEF CacheInv, CallInv, CachedIsRecent, Fresh, Recent, ByTemplate,
         SlowPath, callVars, Missing
  <2>17. CASE UNCHANGED vars
    BY <2>17 DEF vars, callVars, CacheInv, CallInv, CachedIsRecent, Fresh, Recent,
       ByTemplate, SlowPath, Missing
  <2> QED
    <3>1. ASSUME NEW c \in Calls, Step(c) PROVE CacheInv'
      BY <3>1, <2>2, <2>3, <2>4, <2>5, <2>6, <2>7, <2>8, <2>9, <2>10, <2>11,
         <2>12, <2>13 DEF Step
    <3> QED
      BY <3>1, <2>1, <2>1a, <2>14, <2>15, <2>16, <2>17 DEF Next, Over
<1> QED
  BY <1>1, <1>2, TypeInvariant, PTL DEF Spec

\* Fresh: the cached schema is the server's unless an invalidation is due, a
\* change overlapped a fetch or its answer was lost (invalidate_collection_schema).
THEOREM CacheIsFresh == CacheAssumption => (Spec => []Fresh)
<1>1. CacheInv => Fresh
  BY DEF CacheInv
<1> QED
  BY <1>1, CacheInvariant, PTL

\* ReadYourDdl: with the same exceptions, no call goes by a schema older than a
\* DDL statement that had returned before it began or, where it executes a
\* template, before the preparation of that template began (execute_prepared).
THEOREM CallsSeeDdl == CacheAssumption => (Spec => []ReadYourDdl)
<1>1. CacheInv => ReadYourDdl
  BY DEF CacheInv, CallInv, ReadYourDdl
<1> QED
  BY <1>1, CacheInvariant, PTL
=============================================================================
