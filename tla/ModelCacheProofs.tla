-------------------------- MODULE ModelCacheProofs --------------------------
(***************************************************************************)
(* A model is loaded once per live copy and a construction owns what it    *)
(* has filled its slots with, for every number of hosts and models.        *)
(***************************************************************************)
EXTENDS ModelCache, SequenceTheorems, TLAPS

\* Who is between the load lock's acquisition and its release.
Inside(h) == pc[h] \in {"recheck", "load", "insert"}

Types ==
  /\ pc \in [Hosts -> {"idle", "check", "lock", "recheck", "load", "insert", "ready"}]
  /\ todo \in [Hosts -> Seq(Models)]
  /\ held \in [Hosts -> SUBSET Alloc]
  /\ cache \in [Models -> Alloc \union {None}]
  /\ loadLock \in [Models -> Hosts \union {None}]
  /\ \A h \in Hosts : pc[h] \in {"lock", "recheck", "load", "insert"} => todo[h] # <<>>

\* The load lock is held by the one that is inside.
Locked == \A h \in Hosts : Inside(h) => loadLock[Cur(h)] = h

\* A live copy is what the entry upgrades to, or its owner is about to insert it.
Entered ==
  \A h \in Hosts : \A a \in held[h] :
    a = cache[a[1]] \/ (pc[h] = "insert" /\ a[1] = Cur(h))

\* Who loads or inserts has found the entry dead, and owns at most the new copy.
Dead ==
  \A h \in Hosts :
    /\ pc[h] \in {"load", "insert"} => \A g \in Hosts : cache[Cur(h)] \notin held[g]
    /\ pc[h] = "insert" => \A a, b \in held[h] : a[1] = Cur(h) /\ b[1] = Cur(h) => a = b

\* An entry is a copy of its own model.
EntryOfModel == \A m \in Models : cache[m] # None => cache[m][1] = m

IInv == Types /\ EntryOfModel /\ Locked /\ Entered /\ Dead

LEMMA CurInModels ==
  ASSUME Types, NEW h \in Hosts, pc[h] \in {"lock", "recheck", "load", "insert"}
  PROVE  Cur(h) \in Models
  BY DEF Types, Cur

LEMMA AllocNotNone == ASSUME NEW a \in Alloc PROVE a # None
  BY DEF Alloc, None

LEMMA InitInv == ASSUME Init PROVE IInv
  BY DEF Init, IInv, Types, EntryOfModel, Locked, Entered, Dead, Inside, None

\* Sharing takes a live copy out of the entry.
LEMMA ShareInv ==
  ASSUME IInv, NEW h \in Hosts, pc[h] \in {"check", "recheck"}, todo[h] # <<>>,
         Upgrades(Cur(h)), Share(h), UNCHANGED <<cache, poisoned>>,
         \/ pc[h] = "check" /\ UNCHANGED loadLock
         \/ pc[h] = "recheck" /\ Unlock(h)
  PROVE  IInv'
<1>1. /\ Cur(h) \in Models /\ Tail(todo[h]) \in Seq(Models)
      /\ pc' = [pc EXCEPT ![h] = "check"] /\ cache' = cache
      /\ todo' = [todo EXCEPT ![h] = Tail(todo[h])]
      /\ held' = [held EXCEPT ![h] = held[h] \union {cache[Cur(h)]}]
  BY DEF IInv, Types, Cur, Share, Goto
<1>2. PICK g \in Hosts : cache[Cur(h)] \in held[g]
  BY DEF Upgrades, Live
<1>3. cache[Cur(h)] \in Alloc /\ cache[Cur(h)] # None
  BY <1>1, <1>2, AllocNotNone DEF IInv, Types
<1>4. Types'
  BY <1>1, <1>3 DEF IInv, Types, Unlock
<1>5. EntryOfModel'
  BY <1>1 DEF IInv, EntryOfModel
<1>6. \A k \in Hosts : k # h => Cur(k)' = Cur(k) /\ pc'[k] = pc[k] /\ held'[k] = held[k]
  BY <1>1 DEF Cur, IInv, Types
<1>7. pc'[h] = "check"
  BY <1>1 DEF IInv, Types
<1>8. Locked'
  <2>1. SUFFICES ASSUME NEW k \in Hosts, Inside(k)' PROVE loadLock'[Cur(k)'] = k
    BY DEF Locked
  <2>2. k # h /\ Inside(k)
    BY <2>1, <1>6, <1>7 DEF Inside
  <2>3. loadLock[Cur(k)] = k /\ Cur(k) \in Models
    BY <2>2, CurInModels DEF IInv, Locked, Inside
  <2>4. CASE pc[h] = "recheck"
    <3>1. Cur(k) # Cur(h)
      BY <2>2, <2>3, <2>4 DEF IInv, Locked, Inside
    <3> QED
      BY <3>1, <2>2, <2>3, <2>4, <1>6 DEF Unlock, IInv, Types
  <2> QED
    BY <2>2, <2>3, <2>4, <1>6
<1>9. Entered'
  <2>1. SUFFICES ASSUME NEW k \in Hosts, NEW a \in held'[k]
                 PROVE a = cache[a[1]] \/ (pc'[k] = "insert" /\ a[1] = Cur(k)')
    BY <1>1 DEF Entered
  <2>2. CASE k # h
    BY <2>1, <2>2, <1>6 DEF IInv, Entered
  <2>3. CASE k = h /\ a = cache[Cur(h)]
    BY <2>3, <1>1, <1>3 DEF IInv, EntryOfModel
  <2>4. CASE k = h /\ a \in held[h]
    BY <2>4 DEF IInv, Entered
  <2> QED
    BY <2>1, <2>2, <2>3, <2>4, <1>1 DEF IInv, Types
<1>10. Dead'
  <2>1. SUFFICES ASSUME NEW k \in Hosts, pc'[k] \in {"load", "insert"}
                 PROVE /\ \A i \in Hosts : cache[Cur(k)'] \notin held'[i]
                       /\ pc'[k] = "insert" =>
                            \A a, b \in held'[k] : a[1] = Cur(k)' /\ b[1] = Cur(k)' => a = b
    BY <1>1 DEF Dead
  <2>2. k # h /\ Cur(k) \in Models
    BY <2>1, <1>6, <1>7, CurInModels DEF IInv
  <2>3. \A i \in Hosts : cache[Cur(k)] \notin held[i]
    BY <2>1, <2>2, <1>6 DEF IInv, Dead
  <2>4. cache[Cur(k)] # cache[Cur(h)]
    BY <2>3, <1>2
  <2>5. \A i \in Hosts : cache[Cur(k)] \notin held'[i]
    BY <2>3, <2>4, <1>1 DEF IInv, Types
  <2> QED
    BY <2>1, <2>2, <2>5, <1>6 DEF IInv, Dead
<1> QED
  BY <1>4, <1>5, <1>8, <1>9, <1>10 DEF IInv

\* A host that leaves what it owned, or takes nothing: construct, refuse, fail,
\* finish, drop, and the steps that only move it.
LEMMA MoveInv ==
  ASSUME IInv, NEW h \in Hosts, NEW l \in {"idle", "check", "lock", "recheck", "load", "ready"},
         Goto(h, l), UNCHANGED cache,
         NEW t \in Seq(Models), todo' = [todo EXCEPT ![h] = t],
         \/ UNCHANGED held /\ pc[h] # "insert"
         \/ held' = [held EXCEPT ![h] = {}],
         l \in {"lock", "recheck", "load"} => t # <<>>,
         loadLock' \in [Models -> Hosts \union {None}],
         \A m \in Models : loadLock'[m] # loadLock[m] =>
            \/ loadLock[m] = None
            \/ Inside(h) /\ m = Cur(h),
         l \in {"recheck", "load"} => loadLock'[Head(t)] = h,
         l = "load" => \A g \in Hosts : cache[Head(t)] \notin held[g]
  PROVE  IInv'
<1>1. /\ pc' = [pc EXCEPT ![h] = l] /\ cache' = cache
      /\ \A k \in Hosts : held'[k] \subseteq held[k]
      /\ \A k \in Hosts : k # h =>
           Cur(k)' = Cur(k) /\ pc'[k] = pc[k] /\ held'[k] = held[k]
      /\ pc'[h] = l /\ Cur(h)' = Head(t)
  BY DEF IInv, Types, Goto, Cur
<1>2. Types' /\ EntryOfModel'
  BY <1>1 DEF IInv, Types, EntryOfModel
<1>3. Locked'
  <2>1. SUFFICES ASSUME NEW k \in Hosts, Inside(k)' PROVE loadLock'[Cur(k)'] = k
    BY DEF Locked
  <2>2. CASE k = h
    BY <2>1, <2>2, <1>1 DEF Inside
  <2>3. CASE k # h
    <3>1. Inside(k) /\ Cur(k) \in Models /\ loadLock[Cur(k)] = k
      BY <2>1, <2>3, <1>1, CurInModels DEF IInv, Locked, Inside
    <3>2. loadLock[Cur(k)] # None
      BY <3>1, ModelCacheAssumption DEF ModelCacheAssumption
    <3>3. ~(Inside(h) /\ Cur(k) = Cur(h))
      BY <3>1, <2>3 DEF IInv, Locked
    <3> QED
      BY <3>1, <3>2, <3>3, <2>3, <1>1
  <2> QED
    BY <2>2, <2>3
<1>4. Entered'
  <2>1. SUFFICES ASSUME NEW k \in Hosts, NEW a \in held'[k]
                 PROVE a = cache[a[1]] \/ (pc'[k] = "insert" /\ a[1] = Cur(k)')
    BY <1>1 DEF Entered
  <2>2. a \in held[k]
    BY <2>1, <1>1
  <2>3. CASE k # h
    BY <2>2, <2>3, <1>1 DEF IInv, Entered
  <2>4. CASE k = h /\ pc[h] # "insert"
    BY <2>2, <2>4 DEF IInv, Entered
  <2>5. CASE k = h /\ held' = [held EXCEPT ![h] = {}]
    BY <2>1, <2>5 DEF IInv, Types
  <2> QED
    BY <2>3, <2>4, <2>5
<1>5. Dead'
  BY <1>1 DEF IInv, Dead
<1> QED
  BY <1>2, <1>3, <1>4, <1>5 DEF IInv

LEMMA LoadInv ==
  ASSUME IInv, NEW h \in Hosts, Load(h)
  PROVE  IInv'
<1>1. PICK i \in Ids : /\ <<Cur(h), i>> # cache[Cur(h)]
                       /\ held' = [held EXCEPT ![h] = held[h] \union {<<Cur(h), i>>}]
  BY DEF Load
<1>2. /\ pc[h] = "load" /\ pc' = [pc EXCEPT ![h] = "insert"]
      /\ todo' = todo /\ cache' = cache /\ loadLock' = loadLock
      /\ Cur(h) \in Models /\ todo[h] # <<>>
  BY CurInModels DEF Load, Goto, IInv, Types
<1>3. \A k \in Hosts : Cur(k)' = Cur(k)
  BY <1>2 DEF Cur
<1>4. \A k \in Hosts : k # h => pc'[k] = pc[k] /\ held'[k] = held[k]
  BY <1>1, <1>2 DEF IInv, Types
<1>5. pc'[h] = "insert" /\ held'[h] = held[h] \union {<<Cur(h), i>>}
  BY <1>1, <1>2 DEF IInv, Types
<1>6. Types' /\ EntryOfModel'
  <2>1. <<Cur(h), i>> \in Alloc
    BY <1>1, <1>2 DEF Alloc
  <2> QED
    BY <2>1, <1>1, <1>2 DEF IInv, Types, EntryOfModel
<1>7. Locked'
  BY <1>2, <1>3, <1>4, <1>5 DEF IInv, Locked, Inside
<1>8. Entered'
  BY <1>2, <1>3, <1>4, <1>5 DEF IInv, Entered
<1>9. Dead'
  <2>1. SUFFICES ASSUME NEW k \in Hosts, pc'[k] \in {"load", "insert"}
                 PROVE /\ \A g \in Hosts : cache[Cur(k)] \notin held'[g]
                       /\ pc'[k] = "insert" =>
                            \A a, b \in held'[k] : a[1] = Cur(k) /\ b[1] = Cur(k) => a = b
    BY <1>2, <1>3 DEF Dead
  <2>2. pc[k] \in {"load", "insert"} /\ Cur(k) \in Models
    BY <2>1, <1>2, <1>4, CurInModels DEF IInv
  <2>3. \A g \in Hosts : cache[Cur(k)] \notin held[g]
    BY <2>2 DEF IInv, Dead
  <2>4. cache[Cur(k)] # <<Cur(h), i>>
    <3>1. CASE Cur(k) = Cur(h)
      BY <3>1, <1>1
    <3>2. CASE Cur(k) # Cur(h)
      <4>1. SUFFICES ASSUME cache[Cur(k)] = <<Cur(h), i>> PROVE FALSE
        OBVIOUS
      <4>2. <<Cur(h), i>> \in Alloc
        BY <1>2 DEF Alloc
      <4>3. cache[Cur(k)][1] = Cur(k)
        BY <4>1, <4>2, <2>2, AllocNotNone DEF IInv, EntryOfModel
      <4> QED
        BY <4>1, <4>3, <3>2
    <3> QED
      BY <3>1, <3>2
  <2>5. \A g \in Hosts : cache[Cur(k)] \notin held'[g]
    BY <2>3, <2>4, <1>4, <1>5
  <2>6. CASE k = h
    <3>1. \A a \in held[h] : a[1] # Cur(h)
      BY <1>2 DEF IInv, Entered, Dead
    <3> QED
      BY <3>1, <2>5, <2>6, <1>5
  <2>7. CASE k # h
    BY <2>2, <2>5, <2>7, <1>4 DEF IInv, Dead
  <2> QED
    BY <2>6, <2>7
<1> QED
  BY <1>6, <1>7, <1>8, <1>9 DEF IInv

LEMMA InsertInv ==
  ASSUME IInv, NEW h \in Hosts, Insert(h)
  PROVE  IInv'
<1>1. PICK a \in held[h] : a[1] = Cur(h) /\ cache' = [cache EXCEPT ![Cur(h)] = a]
  BY DEF Insert
<1>2. /\ pc[h] = "insert" /\ pc' = [pc EXCEPT ![h] = "check"]
      /\ todo' = [todo EXCEPT ![h] = Tail(todo[h])] /\ held' = held
      /\ loadLock' = [loadLock EXCEPT ![Cur(h)] = None]
      /\ Cur(h) \in Models /\ todo[h] # <<>> /\ Tail(todo[h]) \in Seq(Models)
  BY CurInModels DEF Insert, Goto, Unlock, IInv, Types
<1>3. \A k \in Hosts : k # h => Cur(k)' = Cur(k) /\ pc'[k] = pc[k]
  BY <1>2 DEF Cur, IInv, Types
<1>4. pc'[h] = "check"
  BY <1>2 DEF IInv, Types
<1>5. \A k \in Hosts : k # h /\ Inside(k) => Cur(k) # Cur(h) /\ Cur(k) \in Models
  BY <1>2, CurInModels DEF IInv, Locked, Inside
<1>6. Types' /\ EntryOfModel'
  BY <1>1, <1>2 DEF IInv, Types, EntryOfModel
<1>7. Locked'
  BY <1>2, <1>3, <1>4, <1>5 DEF IInv, Types, Locked, Inside
<1>8. Entered'
  <2>1. SUFFICES ASSUME NEW k \in Hosts, NEW b \in held[k]
                 PROVE b = cache'[b[1]] \/ (pc'[k] = "insert" /\ b[1] = Cur(k)')
    BY <1>2 DEF Entered
  <2>2. CASE b[1] # Cur(h)
    BY <2>2, <1>1, <1>3, <1>2 DEF IInv, Types, Entered
  <2>3. CASE b[1] = Cur(h)
    <3>1. b # cache[Cur(h)]
      BY <1>2 DEF IInv, Dead
    <3>2. pc[k] = "insert" /\ Cur(k) = Cur(h)
      BY <2>3, <3>1 DEF IInv, Entered
    <3>3. k = h
      BY <3>2, <1>5 DEF Inside
    <3>4. a = b
      BY <3>3, <2>3, <1>1, <1>2 DEF IInv, Dead
    <3> QED
      BY <3>4, <2>3, <1>1, <1>2 DEF IInv, Types
  <2> QED
    BY <2>2, <2>3
<1>9. Dead'
  <2>1. SUFFICES ASSUME NEW k \in Hosts, pc'[k] \in {"load", "insert"}
                 PROVE /\ \A g \in Hosts : cache'[Cur(k)'] \notin held[g]
                       /\ pc'[k] = "insert" =>
                            \A x, y \in held[k] : x[1] = Cur(k)' /\ y[1] = Cur(k)' => x = y
    BY <1>2 DEF Dead
  <2>2. k # h /\ Inside(k)
    BY <2>1, <1>3, <1>4 DEF Inside
  <2>3. Cur(k)' = Cur(k) /\ cache'[Cur(k)] = cache[Cur(k)] /\ pc'[k] = pc[k]
    BY <2>2, <1>1, <1>3, <1>5
  <2> QED
    BY <2>1, <2>3 DEF IInv, Dead
<1> QED
  BY <1>6, <1>7, <1>8, <1>9 DEF IInv

\* Every step keeps the invariant.
LEMMA NextInv ==
  ASSUME IInv, [Next]_vars
  PROVE  IInv'
<1>1. CASE UNCHANGED vars
  BY <1>1 DEF vars, IInv, Types, EntryOfModel, Locked, Entered, Dead, Inside, Cur
<1>2. SUFFICES ASSUME NEW h \in Hosts,
                      Construct(h) \/ Refuse(h) \/ Lock(h) \/ Step(h) \/ Drop(h)
               PROVE IInv'
  BY <1>1 DEF Next
<1>3. /\ <<>> \in Seq(Models) /\ todo[h] \in Seq(Models)
      /\ todo = [todo EXCEPT ![h] = todo[h]] /\ held[h] \in SUBSET Alloc
      /\ loadLock \in [Models -> Hosts \union {None}]
  BY DEF IInv, Types
<1>4. CASE Construct(h)
  <2>1. PICK c \in Configs : todo' = [todo EXCEPT ![h] = c]
    BY <1>4 DEF Construct
  <2>2. c \in Seq(Models)
    BY ModelCacheAssumption DEF ModelCacheAssumption
  <2> QED
    BY <1>3, <1>4, <2>1, <2>2, MoveInv DEF Construct
<1>5. CASE Refuse(h)
  BY <1>3, <1>5, MoveInv DEF Refuse, Fail
<1>6. CASE Check(h)
  <2>1. CASE Upgrades(Cur(h)) /\ Share(h)
    BY <1>6, <2>1, ShareInv DEF Check
  <2>2. CASE Goto(h, "lock") /\ UNCHANGED <<todo, held>>
    BY <1>3, <1>6, <2>2, MoveInv DEF Check
  <2> QED
    BY <1>6, <2>1, <2>2 DEF Check
<1>7. CASE Lock(h)
  <2>1. CASE Fail(h) /\ UNCHANGED loadLock
    BY <1>3, <1>7, <2>1, MoveInv DEF Lock, Fail
  <2>2. CASE /\ loadLock' = [loadLock EXCEPT ![Cur(h)] = h]
             /\ Goto(h, "recheck") /\ UNCHANGED <<todo, held>>
    <3>1. Cur(h) \in Models /\ loadLock[Cur(h)] = None /\ todo[h] # <<>> /\ pc[h] = "lock"
      BY <1>7, CurInModels DEF Lock, IInv, Types
    <3>2. /\ loadLock' \in [Models -> Hosts \union {None}] /\ loadLock'[Head(todo[h])] = h
          /\ \A m \in Models : loadLock'[m] # loadLock[m] => loadLock[m] = None
      BY <1>3, <2>2, <3>1 DEF Cur
    <3>3. UNCHANGED cache
      BY <1>7 DEF Lock
    <3> QED
      BY <1>3, <2>2, <3>1, <3>2, <3>3, MoveInv
  <2> QED
    BY <1>7, <2>1, <2>2 DEF Lock
<1>8. CASE Recheck(h)
  <2>1. pc[h] = "recheck" /\ Cur(h) \in Models /\ todo[h] # <<>>
    BY <1>8, CurInModels DEF Recheck, IInv, Types
  <2>2. CASE Upgrades(Cur(h)) /\ Share(h) /\ Unlock(h)
    BY <1>8, <2>1, <2>2, ShareInv DEF Recheck
  <2>3. CASE ~Upgrades(Cur(h)) /\ Goto(h, "load") /\ UNCHANGED <<todo, held, loadLock>>
    <3>1. loadLock'[Head(todo[h])] = h
      BY <2>1, <2>3 DEF IInv, Locked, Inside, Cur
    <3>2. \A g \in Hosts : cache[Head(todo[h])] \notin held[g]
      BY <2>3 DEF Upgrades, Live, Cur
    <3>3. UNCHANGED cache
      BY <1>8 DEF Recheck
    <3> QED
      BY <1>3, <2>1, <2>3, <3>1, <3>2, <3>3, MoveInv
  <2> QED
    BY <1>8, <2>2, <2>3 DEF Recheck
<1>9. CASE Load(h)
  BY <1>9, LoadInv
<1>10. CASE LoadFails(h) \/ LoadPanics(h)
  <2>1. pc[h] = "load" /\ Fail(h) /\ Unlock(h) /\ UNCHANGED cache
    BY <1>10 DEF LoadFails, LoadPanics
  <2>2. Cur(h) \in Models /\ Inside(h)
    BY <2>1, CurInModels DEF IInv, Inside
  <2>3. /\ loadLock' \in [Models -> Hosts \union {None}]
        /\ \A m \in Models : loadLock'[m] # loadLock[m] => Inside(h) /\ m = Cur(h)
    BY <1>3, <2>1, <2>2 DEF Unlock
  <2> QED
    BY <1>3, <2>1, <2>3, MoveInv DEF Fail
<1>11. CASE Insert(h)
  BY <1>11, InsertInv
<1>12. CASE Finish(h)
  BY <1>3, <1>12, MoveInv DEF Finish
<1>13. CASE Drop(h)
  BY <1>3, <1>13, MoveInv DEF Drop
<1> QED
  BY <1>2, <1>4, <1>5, <1>6, <1>7, <1>8, <1>9, <1>10, <1>11, <1>12, <1>13 DEF Step

LEMMA InvGivesOneLiveCopy ==
  ASSUME IInv
  PROVE  OneLiveCopy
<1>1. ASSUME NEW g \in Hosts, NEW h \in Hosts, NEW a \in held[g], NEW b \in held[h], a[1] = b[1]
      PROVE  a = b
  <2>1. CASE a = cache[a[1]] /\ b = cache[b[1]]
    BY <2>1, <1>1
  <2>2. CASE a = cache[a[1]] /\ pc[h] = "insert" /\ b[1] = Cur(h)
    BY <2>2, <1>1 DEF IInv, Dead
  <2>3. CASE b = cache[b[1]] /\ pc[g] = "insert" /\ a[1] = Cur(g)
    BY <2>3, <1>1 DEF IInv, Dead
  <2>4. CASE pc[g] = "insert" /\ a[1] = Cur(g) /\ pc[h] = "insert" /\ b[1] = Cur(h)
    <3>1. g = h
      BY <2>4, <1>1 DEF IInv, Locked, Inside
    <3> QED
      BY <3>1, <2>4, <1>1 DEF IInv, Dead
  <2> QED
    BY <2>1, <2>2, <2>3, <2>4 DEF IInv, Entered
<1>2. ASSUME NEW h \in Hosts, pc[h] = "load"
      PROVE  /\ \A g \in Hosts : \A a \in held[g] : a[1] # Cur(h)
             /\ \A g \in Hosts \ {h} : pc[g] \in {"load", "insert"} => Cur(g) # Cur(h)
  <2>1. \A g \in Hosts \ {h} : Inside(g) => Cur(g) # Cur(h)
    BY <1>2 DEF IInv, Locked, Inside
  <2>2. ASSUME NEW g \in Hosts, NEW a \in held[g], a[1] = Cur(h) PROVE FALSE
    <3>1. a # cache[Cur(h)]
      BY <1>2 DEF IInv, Dead
    <3>2. pc[g] = "insert" /\ Cur(g) = Cur(h)
      BY <2>2, <3>1 DEF IInv, Entered
    <3> QED
      BY <3>2, <2>1, <1>2 DEF Inside
  <2> QED
    BY <2>1, <2>2 DEF Inside
<1> QED
  BY <1>1, <1>2 DEF OneLiveCopy, Live

\* For any number of hosts and models, a model is in memory at most once and is
\* never loaded while it is (load_cached).
THEOREM LoadedOnce == Spec => []OneLiveCopy
<1>1. Init => IInv
  BY InitInv
<1>2. IInv /\ [Next]_vars => IInv'
  BY NextInv
<1>3. IInv => OneLiveCopy
  BY InvGivesOneLiveCopy
<1> QED
  BY <1>1, <1>2, <1>3, PTL DEF Spec

-----------------------------------------------------------------------------
(* What a host owns, slot by slot. *)

Distinct(c) == \A i, j \in DOMAIN c : c[i] = c[j] => i = j

\* A host owns nothing for a slot still to be filled but the copy it inserts.
Owned(h) ==
  /\ Distinct(todo[h])
  /\ pc[h] = "idle" => held[h] = {}
  /\ \A a \in held[h] : a[1] \in Pending(h) => pc[h] = "insert" /\ a[1] = Cur(h)

SlotInv == poisoned \subseteq Models /\ \A h \in Hosts : Owned(h)

\* The slots after the first are others than the first.
LEMMA NextSlots ==
  ASSUME NEW c \in Seq(Models), c # <<>>, Distinct(c)
  PROVE  /\ Distinct(Tail(c)) /\ Tail(c) \in Seq(Models)
         /\ \A i \in DOMAIN Tail(c) : /\ Tail(c)[i] # Head(c)
                                     /\ \E j \in DOMAIN c : Tail(c)[i] = c[j]
<1>1. /\ DOMAIN c = 1..Len(c) /\ Len(c) \in Nat \ {0} /\ Head(c) = c[1]
      /\ Tail(c) \in Seq(Models) /\ DOMAIN Tail(c) = 1..(Len(c) - 1)
      /\ \A i \in 1..(Len(c) - 1) : Tail(c)[i] = c[i + 1]
  BY HeadTailProperties, LenProperties, EmptySeq
<1>2. \A i \in DOMAIN Tail(c) : i + 1 \in DOMAIN c /\ i + 1 # 1 /\ Tail(c)[i] = c[i + 1]
  BY <1>1
<1>3. 1 \in DOMAIN c
  BY <1>1
<1>4. Distinct(Tail(c))
  <2>1. \A i, j \in DOMAIN Tail(c) : i + 1 = j + 1 => i = j
    BY <1>1
  <2> QED
    BY <1>2, <2>1 DEF Distinct
<1> QED
  BY <1>1, <1>2, <1>3, <1>4 DEF Distinct

\* The other hosts keep what they own.
LEMMA OthersOwn ==
  ASSUME SlotInv, NEW h \in Hosts, Types,
         \A g \in Hosts \ {h} : pc'[g] = pc[g] /\ todo'[g] = todo[g] /\ held'[g] = held[g],
         poisoned' \subseteq Models, Owned(h)'
  PROVE  SlotInv'
<1>1. ASSUME NEW g \in Hosts, g # h PROVE Owned(g)'
  BY <1>1 DEF SlotInv, Owned, Distinct, Pending, Cur
<1> QED
  BY <1>1 DEF SlotInv

\* The current slot is filled with a copy of its model, or the copy that was
\* loaded for it is in the cache: the next one follows.
LEMMA NextSlotOwned ==
  ASSUME SlotInv, Types, NEW h \in Hosts, todo[h] # <<>>,
         Goto(h, "check"), todo' = [todo EXCEPT ![h] = Tail(@)],
         \/ held' = held
         \/ /\ pc[h] # "insert"
            /\ \E a \in Alloc : a[1] = Cur(h) /\ held' = [held EXCEPT ![h] = @ \union {a}],
         UNCHANGED poisoned
  PROVE  SlotInv'
<1>1. /\ Distinct(Tail(todo[h]))
      /\ \A i \in DOMAIN Tail(todo[h]) :
           /\ Tail(todo[h])[i] # Cur(h)
           /\ Tail(todo[h])[i] \in Pending(h)
  BY NextSlots DEF SlotInv, Owned, Types, Cur, Pending
<1>2. /\ pc' = [pc EXCEPT ![h] = "check"] /\ todo'[h] = Tail(todo[h])
      /\ \A a \in held'[h] : a \in held[h] \/ a[1] = Cur(h)
      /\ \A g \in Hosts \ {h} : pc'[g] = pc[g] /\ todo'[g] = todo[g] /\ held'[g] = held[g]
  BY DEF Types, Goto
<1>3. \A m \in Pending(h)' : m # Cur(h) /\ m \in Pending(h)
  <2> DEFINE c == Tail(todo[h])
  <2>1. \A i \in DOMAIN c : c[i] # Cur(h) /\ c[i] \in Pending(h)
    BY <1>1
  <2>2. todo'[h] = c
    BY <1>2
  <2> HIDE DEF c
  <2>3. Pending(h)' = {c[i] : i \in DOMAIN c}
    BY <2>2 DEF Pending
  <2> QED
    BY <2>1, <2>3
<1>4. pc'[h] = "check"
  BY <1>2 DEF Types
<1>5. \A a \in held'[h] : a[1] \notin Pending(h)'
  BY <1>2, <1>3 DEF SlotInv, Owned
<1>6. Owned(h)'
  BY <1>1, <1>2, <1>4, <1>5 DEF Owned
<1> QED
  BY <1>2, <1>6, OthersOwn DEF SlotInv

\* A construction that begins, fails or is dropped owns nothing.
LEMMA EmptyOwned ==
  ASSUME SlotInv, Types, NEW h \in Hosts, NEW l, Goto(h, l), NEW c,
         Distinct(c), todo' = [todo EXCEPT ![h] = c],
         held' = [held EXCEPT ![h] = {}], poisoned' \subseteq Models
  PROVE  SlotInv'
<1>1. /\ todo'[h] = c /\ held'[h] = {}
      /\ \A g \in Hosts \ {h} : pc'[g] = pc[g] /\ todo'[g] = todo[g] /\ held'[g] = held[g]
  BY DEF Types, Goto
<1>2. Owned(h)'
  BY <1>1 DEF Owned
<1> QED
  BY <1>1, <1>2, OthersOwn

\* A host that only moves on owns what it owned.
LEMMA SameOwned ==
  ASSUME SlotInv, Types, NEW h \in Hosts, NEW l, l # "idle", pc[h] # "insert",
         Goto(h, l), UNCHANGED <<todo, held, poisoned>>
  PROVE  SlotInv'
<1>1. /\ pc'[h] = l /\ todo'[h] = todo[h] /\ held'[h] = held[h]
      /\ \A g \in Hosts \ {h} : pc'[g] = pc[g] /\ todo'[g] = todo[g] /\ held'[g] = held[g]
  BY DEF Types, Goto
<1>2. Owned(h)'
  BY <1>1 DEF SlotInv, Owned, Pending, Cur
<1> QED
  BY <1>1, <1>2, OthersOwn DEF SlotInv

\* Every step keeps what a host owns and has still to fill apart.
LEMMA SlotNext ==
  ASSUME IInv, SlotInv, [Next]_vars
  PROVE  SlotInv'
<1>0. Types /\ EntryOfModel /\ Distinct(<<>>)
  BY DEF IInv, Distinct
<1>1. CASE UNCHANGED vars
  BY <1>1 DEF vars, SlotInv, Owned, Distinct, Pending, Cur
<1>2. SUFFICES ASSUME NEW h \in Hosts,
                      Construct(h) \/ Refuse(h) \/ Lock(h) \/ Step(h) \/ Drop(h)
               PROVE SlotInv'
  BY <1>1 DEF Next
<1>3. ASSUME Fail(h), poisoned' \subseteq Models PROVE SlotInv'
  BY <1>0, <1>3, EmptyOwned DEF Fail
<1>4. poisoned \subseteq Models
  BY DEF SlotInv
<1>5. ASSUME Upgrades(Cur(h)), Share(h), UNCHANGED poisoned, pc[h] \in {"check", "recheck"},
             todo[h] # <<>>
      PROVE  SlotInv'
  <2>1. Cur(h) \in Models
    BY <1>0, <1>5, HeadTailProperties DEF Types, Cur
  <2>2. cache[Cur(h)] \in Alloc
    BY <1>0, <1>5 DEF Types, Upgrades, Live
  <2>3. cache[Cur(h)][1] = Cur(h)
    BY <1>0, <2>1, <2>2, AllocNotNone DEF EntryOfModel
  <2> QED
    BY <1>0, <1>5, <2>2, <2>3, NextSlotOwned DEF Share
<1>6. CASE Construct(h)
  <2>1. PICK c \in Configs : todo' = [todo EXCEPT ![h] = c]
    BY <1>6 DEF Construct
  <2>2. Distinct(c)
    BY ModelCacheAssumption DEF ModelCacheAssumption, Distinct
  <2>3. held' = [held EXCEPT ![h] = {}]
    BY <1>0, <1>6 DEF Construct, SlotInv, Owned, Types
  <2> QED
    BY <1>0, <1>4, <1>6, <2>1, <2>2, <2>3, EmptyOwned DEF Construct
<1>7. CASE Refuse(h)
  BY <1>3, <1>4, <1>7 DEF Refuse
<1>8. CASE Lock(h)
  BY <1>0, <1>3, <1>4, <1>8, SameOwned DEF Lock
<1>9. CASE Check(h)
  BY <1>0, <1>5, <1>9, SameOwned DEF Check
<1>10. CASE Recheck(h)
  <2>1. todo[h] # <<>>
    BY <1>0, <1>10 DEF Recheck, Types
  <2> QED
    BY <1>0, <1>5, <1>10, <2>1, SameOwned DEF Recheck
<1>11. CASE Load(h)
  <2>1. PICK i \in Ids : held' = [held EXCEPT ![h] = held[h] \union {<<Cur(h), i>>}]
    BY <1>11 DEF Load
  <2>2. /\ pc[h] = "load" /\ pc'[h] = "insert" /\ todo' = todo
        /\ held'[h] = held[h] \union {<<Cur(h), i>>}
        /\ \A g \in Hosts \ {h} : pc'[g] = pc[g] /\ todo'[g] = todo[g] /\ held'[g] = held[g]
    BY <1>0, <1>11, <2>1 DEF Load, Goto, Types
  <2>3. Owned(h)'
    BY <2>2 DEF SlotInv, Owned, Pending, Cur
  <2> QED
    BY <1>0, <1>4, <1>11, <2>2, <2>3, OthersOwn DEF Load
<1>12. CASE LoadFails(h) \/ LoadPanics(h)
  <2>1. Cur(h) \in Models
    BY <1>0, <1>12, CurInModels DEF LoadFails, LoadPanics
  <2> QED
    BY <1>3, <1>4, <1>12, <2>1 DEF LoadFails, LoadPanics
<1>13. CASE Insert(h)
  <2>1. todo[h] # <<>>
    BY <1>0, <1>13 DEF Insert, Types
  <2> QED
    BY <1>0, <1>13, <2>1, NextSlotOwned DEF Insert
<1>14. CASE Finish(h)
  BY <1>0, <1>14, SameOwned DEF Finish
<1>15. CASE Drop(h)
  <2>1. todo' = [todo EXCEPT ![h] = todo[h]] /\ Distinct(todo[h])
    BY <1>0, <1>15 DEF Drop, Types, SlotInv, Owned
  <2> QED
    BY <1>0, <1>4, <1>15, <2>1, EmptyOwned DEF Drop
<1> QED
  BY <1>2, <1>6, <1>7, <1>8, <1>9, <1>10, <1>11, <1>12, <1>13, <1>14, <1>15 DEF Step

\* TypeOK: an idle host owns nothing, whatever loads failed or panicked, and a
\* construction has no model for a slot it is still to fill, save the copy it
\* is about to insert (try_with_options).
THEOREM OwnsWhatItFilled == Spec => []TypeOK
<1>1. Init => IInv /\ SlotInv
  <2> SUFFICES ASSUME Init PROVE SlotInv
    BY InitInv
  <2> QED
    BY DEF Init, SlotInv, Owned, Distinct, Pending
<1>2. IInv /\ SlotInv /\ [Next]_vars => IInv' /\ SlotInv'
  BY NextInv, SlotNext
<1>3. IInv /\ SlotInv => TypeOK
  BY DEF IInv, Types, SlotInv, Owned, TypeOK, Filled
<1> QED
  BY <1>1, <1>2, <1>3, PTL DEF Spec
=============================================================================
