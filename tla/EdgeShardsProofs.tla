-------------------------- MODULE EdgeShardsProofs --------------------------
(***************************************************************************)
(* Theorems about EdgeShards for every set of calls: its type invariant,   *)
(* and, where the callers run DROP COLLECTION alone, that construction is  *)
(* serialised, that the open shard is the one on disk, and that the        *)
(* backend implements EdgeContract.                                        *)
(***************************************************************************)
EXTENDS EdgeShards, FiniteSetTheorems, TLAPS

USE EdgeAssumption DEF None, Owners

\* Every step keeps the types.
LEMMA TypeStep ==
  ASSUME TypeOK, [Next]_vars
  PROVE  TypeOK'
<1>1. ASSUME NEW c \in Calls, Start(c) PROVE TypeOK'
  BY <1>1 DEF Start, Goto, FirstStep, TypeOK
<1>2. ASSUME NEW c \in Calls, CheckCache(c) PROVE TypeOK'
  BY <1>2 DEF CheckCache, Found, Tell, Goto, TypeOK
<1>3. ASSUME NEW c \in Calls, TakeEntry(c) PROVE TypeOK'
  BY <1>3 DEF TakeEntry, Goto, TypeOK
<1>4. ASSUME NEW c \in Calls, Recheck(c) PROVE TypeOK'
  BY <1>4 DEF Recheck, Found, Tell, Goto, TypeOK
<1>5. ASSUME NEW c \in Calls, Insert(c) PROVE TypeOK'
  BY <1>5 DEF Insert, Release, Tell, Goto, TypeOK
<1>6. ASSUME NEW c \in Calls, Unlock(c) PROVE TypeOK'
  BY <1>6 DEF Unlock, Goto, TypeOK
<1>7. ASSUME NEW c \in Calls, DropGuard(c) PROVE TypeOK'
  BY <1>7 DEF DropGuard, Goto, TypeOK
<1>8. ASSUME NEW c \in Calls, FreeGuard(c) PROVE TypeOK'
  BY <1>8 DEF FreeGuard, Goto, TypeOK
<1>9. ASSUME NEW c \in Calls, Evict(c) PROVE TypeOK'
  BY <1>9 DEF Evict, Goto, TypeOK
<1>10. ASSUME NEW c \in Calls, Forget(c) PROVE TypeOK'
  BY <1>10 DEF Forget, Goto, TypeOK
<1>11. ASSUME NEW c \in Calls, Erase(c) PROVE TypeOK'
  BY <1>11 DEF Erase, Release, Tell, Goto, Present, TypeOK
<1>12. ASSUME NEW c \in Calls, EraseFails(c) PROVE TypeOK'
  BY <1>12 DEF EraseFails, Release, Fault, Tell, Goto, Present, TypeOK
<1>13. ASSUME NEW c \in Calls, Drain(c) PROVE TypeOK'
  BY <1>13 DEF Drain, Tell, Goto, TypeOK
<1>14. ASSUME NEW c \in Calls, Inspect(c) PROVE TypeOK'
  BY <1>14 DEF Inspect, JobFails, JobGoesOn, Tell, Goto, Present, TypeOK
<1>15. ASSUME NEW c \in Calls, Load(c) PROVE TypeOK'
  BY <1>15 DEF Load, JobBuilds, JobFails, Tell, Goto, Present, TypeOK
<1>16. ASSUME NEW c \in Calls, New(c) PROVE TypeOK'
  BY <1>16 DEF New, JobBuilds, JobFails, Tell, Goto, Present, TypeOK
<1>17. ASSUME NEW c \in Calls, ConstructionFails(c) PROVE TypeOK'
  BY <1>17 DEF ConstructionFails, Fault, JobFails, Tell, Goto, Present, TypeOK
<1>18. ASSUME NEW c \in Calls, Cancel(c) PROVE TypeOK'
  BY <1>18 DEF Cancel, Fault, Release, Tell, Goto, TypeOK
<1>19. CASE UNCHANGED vars
  BY <1>19 DEF vars, TypeOK
<1>20. QED
  BY <1>1, <1>2, <1>3, <1>4, <1>5, <1>6, <1>7, <1>8, <1>9, <1>10, <1>11, <1>12, <1>13, <1>14, <1>15, <1>16, <1>17, <1>18, <1>19 DEF Next, Step, Work, Over

\* A mutex that the map knows has a strong count above two while two guards
\* refer to it, so neither of them removes it.
LEMMA TwoGuardsKeepEntry ==
  ASSUME TypeOK, NEW c \in Calls, NEW d \in Calls, c # d,
         entry # None, lockOf[c] = entry, lockOf[d] = entry
  PROVE  ~(StrongCount(entry) <= 2)
<1> DEFINE G == {e \in Calls : lockOf[e] = entry}
<1>1. IsFiniteSet(G) /\ Cardinality(G) \in Nat
  BY FS_Subset, FS_CardinalityType
<1>2. {c, d} \subseteq G /\ IsFiniteSet({c, d}) /\ Cardinality({c, d}) = 2
  <2>1. IsFiniteSet({d}) /\ Cardinality({d}) = 1
    BY FS_Singleton
  <2>2. IsFiniteSet({d} \cup {c}) /\ Cardinality({d} \cup {c}) = 2
    <3>1. c \notin {d}
      OBVIOUS
    <3>2. IsFiniteSet({d} \cup {c}) /\ Cardinality({d} \cup {c}) = Cardinality({d}) + 1
      BY <2>1, <3>1, FS_AddElement, Zenon
    <3> QED
      BY <2>1, <3>2
  <2>3. {d} \cup {c} = {c, d}
    OBVIOUS
  <2> QED
    BY <2>2, <2>3
<1>3. Cardinality({c, d}) <= Cardinality(G)
  BY <1>1, <1>2, FS_Subset
<1> QED
  BY <1>1, <1>2, <1>3 DEF StrongCount

\* Calls that wait or work keep the mutex of the map.
LEMMA LockStep ==
  ASSUME TypeOK, LockInv, DropInv, DropsAlone, [Next]_vars
  PROVE  LockInv'
<1>1. ASSUME NEW c \in Calls, Start(c) PROVE LockInv'
  BY <1>1 DEF Start, Goto, FirstStep, TypeOK, LockInv, DropInv, Busy
<1>2. ASSUME NEW c \in Calls, CheckCache(c) PROVE LockInv'
  BY <1>2 DEF CheckCache, Found, Tell, Goto, TypeOK, LockInv, DropInv, Busy
<1>3. ASSUME NEW c \in Calls, TakeEntry(c) PROVE LockInv'
  BY <1>3 DEF TakeEntry, Goto, TypeOK, LockInv, DropInv, Busy
<1>4. ASSUME NEW c \in Calls, Recheck(c) PROVE LockInv'
  BY <1>4 DEF Recheck, Found, Tell, Goto, TypeOK, LockInv, DropInv, Busy
<1>5. ASSUME NEW c \in Calls, Insert(c) PROVE LockInv'
  BY <1>5 DEF Insert, Release, Tell, Goto, TypeOK, LockInv, DropInv, Busy
<1>6. ASSUME NEW c \in Calls, Unlock(c) PROVE LockInv'
  BY <1>6 DEF Unlock, Goto, TypeOK, LockInv, DropInv, Busy
<1>7. ASSUME NEW c \in Calls, DropGuard(c) PROVE LockInv'
  BY <1>7, TwoGuardsKeepEntry DEF DropGuard, Goto, TypeOK, LockInv, DropInv, Busy
<1>8. ASSUME NEW c \in Calls, FreeGuard(c) PROVE LockInv'
  BY <1>8 DEF FreeGuard, Goto, TypeOK, LockInv, DropInv, Busy
<1>9. ASSUME NEW c \in Calls, Evict(c) PROVE LockInv'
  BY <1>9 DEF Evict, Goto, TypeOK, LockInv, DropInv, Busy
<1>10. ASSUME NEW c \in Calls, Forget(c) PROVE LockInv'
  BY <1>10 DEF Forget, Goto, TypeOK, LockInv, DropInv, Busy
<1>11. ASSUME NEW c \in Calls, Erase(c) PROVE LockInv'
  BY <1>11 DEF Erase, Release, Tell, Goto, Present, TypeOK, LockInv, DropInv, Busy
<1>12. ASSUME NEW c \in Calls, EraseFails(c) PROVE LockInv'
  BY <1>12 DEF EraseFails, Release, Fault, Tell, Goto, Present, TypeOK, LockInv, DropInv, Busy
<1>13. ASSUME NEW c \in Calls, Drain(c) PROVE LockInv'
  BY <1>13 DEF Drain, Tell, Goto, TypeOK, LockInv, DropInv, Busy
<1>14. ASSUME NEW c \in Calls, Inspect(c) PROVE LockInv'
  BY <1>14 DEF Inspect, JobFails, JobGoesOn, Tell, Goto, Present, TypeOK, LockInv, DropInv, Busy
<1>15. ASSUME NEW c \in Calls, Load(c) PROVE LockInv'
  BY <1>15 DEF Load, JobBuilds, JobFails, Tell, Goto, Present, TypeOK, LockInv, DropInv, Busy
<1>16. ASSUME NEW c \in Calls, New(c) PROVE LockInv'
  BY <1>16 DEF New, JobBuilds, JobFails, Tell, Goto, Present, TypeOK, LockInv, DropInv, Busy
<1>17. ASSUME NEW c \in Calls, ConstructionFails(c) PROVE LockInv'
  BY <1>17 DEF ConstructionFails, Fault, JobFails, Tell, Goto, Present, TypeOK, LockInv, DropInv, Busy
<1>18. ASSUME NEW c \in Calls, Cancel(c) PROVE LockInv'
  BY <1>18 DEF Cancel, Fault, Release, Tell, Goto, TypeOK, LockInv, DropInv, Busy
<1>19. CASE UNCHANGED vars
  BY <1>19 DEF vars, TypeOK, LockInv, DropInv, Busy
<1>20. QED
  BY <1>1, <1>2, <1>3, <1>4, <1>5, <1>6, <1>7, <1>8, <1>9, <1>10, <1>11, <1>12, <1>13, <1>14, <1>15, <1>16, <1>17, <1>18, <1>19 DEF Next, Step, Work, Over

\* A DROP stays alone.
LEMMA DropStep ==
  ASSUME TypeOK, DropInv, JobInv, CachedShardOnDisk, DropsAlone, [Next]_vars
  PROVE  DropInv'
<1>1. ASSUME NEW c \in Calls, Start(c) PROVE DropInv'
  BY <1>1 DEF Start, Goto, FirstStep, TypeOK, DropInv, JobInv, CachedShardOnDisk, Busy
<1>2. ASSUME NEW c \in Calls, CheckCache(c) PROVE DropInv'
  BY <1>2 DEF CheckCache, Found, Tell, Goto, TypeOK, DropInv, JobInv, CachedShardOnDisk, Busy
<1>3. ASSUME NEW c \in Calls, TakeEntry(c) PROVE DropInv'
  BY <1>3 DEF TakeEntry, Goto, TypeOK, DropInv, JobInv, CachedShardOnDisk, Busy
<1>4. ASSUME NEW c \in Calls, Recheck(c) PROVE DropInv'
  BY <1>4 DEF Recheck, Found, Tell, Goto, TypeOK, DropInv, JobInv, CachedShardOnDisk, Busy
<1>5. ASSUME NEW c \in Calls, Insert(c) PROVE DropInv'
  BY <1>5 DEF Insert, Release, Tell, Goto, TypeOK, DropInv, JobInv, CachedShardOnDisk, Busy
<1>6. ASSUME NEW c \in Calls, Unlock(c) PROVE DropInv'
  BY <1>6 DEF Unlock, Goto, TypeOK, DropInv, JobInv, CachedShardOnDisk, Busy
<1>7. ASSUME NEW c \in Calls, DropGuard(c) PROVE DropInv'
  BY <1>7 DEF DropGuard, Goto, TypeOK, DropInv, JobInv, CachedShardOnDisk, Busy
<1>8. ASSUME NEW c \in Calls, FreeGuard(c) PROVE DropInv'
  BY <1>8 DEF FreeGuard, Goto, TypeOK, DropInv, JobInv, CachedShardOnDisk, Busy
<1>9. ASSUME NEW c \in Calls, Evict(c) PROVE DropInv'
  BY <1>9 DEF Evict, Goto, TypeOK, DropInv, JobInv, CachedShardOnDisk, Busy
<1>10. ASSUME NEW c \in Calls, Forget(c) PROVE DropInv'
  BY <1>10 DEF Forget, Goto, TypeOK, DropInv, JobInv, CachedShardOnDisk, Busy
<1>11. ASSUME NEW c \in Calls, Erase(c) PROVE DropInv'
  BY <1>11 DEF Erase, Release, Tell, Goto, Present, TypeOK, DropInv, JobInv, CachedShardOnDisk, Busy
<1>12. ASSUME NEW c \in Calls, EraseFails(c) PROVE DropInv'
  BY <1>12 DEF EraseFails, Release, Fault, Tell, Goto, Present, TypeOK, DropInv, JobInv, CachedShardOnDisk, Busy
<1>13. ASSUME NEW c \in Calls, Drain(c) PROVE DropInv'
  BY <1>13 DEF Drain, Tell, Goto, TypeOK, DropInv, JobInv, CachedShardOnDisk, Busy
<1>14. ASSUME NEW c \in Calls, Inspect(c) PROVE DropInv'
  BY <1>14 DEF Inspect, JobFails, JobGoesOn, Tell, Goto, Present, TypeOK, DropInv, JobInv, CachedShardOnDisk, Busy
<1>15. ASSUME NEW c \in Calls, Load(c) PROVE DropInv'
  BY <1>15 DEF Load, JobBuilds, JobFails, Tell, Goto, Present, TypeOK, DropInv, JobInv, CachedShardOnDisk, Busy
<1>16. ASSUME NEW c \in Calls, New(c) PROVE DropInv'
  BY <1>16 DEF New, JobBuilds, JobFails, Tell, Goto, Present, TypeOK, DropInv, JobInv, CachedShardOnDisk, Busy
<1>17. ASSUME NEW c \in Calls, ConstructionFails(c) PROVE DropInv'
  BY <1>17 DEF ConstructionFails, Fault, JobFails, Tell, Goto, Present, TypeOK, DropInv, JobInv, CachedShardOnDisk, Busy
<1>18. ASSUME NEW c \in Calls, Cancel(c) PROVE DropInv'
  BY <1>18 DEF Cancel, Fault, Release, Tell, Goto, TypeOK, DropInv, JobInv, CachedShardOnDisk, Busy
<1>19. CASE UNCHANGED vars
  BY <1>19 DEF vars, TypeOK, DropInv, JobInv, CachedShardOnDisk, Busy
<1>20. QED
  BY <1>1, <1>2, <1>3, <1>4, <1>5, <1>6, <1>7, <1>8, <1>9, <1>10, <1>11, <1>12, <1>13, <1>14, <1>15, <1>16, <1>17, <1>18, <1>19 DEF Next, Step, Work, Over

\* A constructed shard stays the one on disk until it is published.
LEMMA ShardStep ==
  ASSUME TypeOK, ShardInv, DropInv, JobInv, [Next]_vars
  PROVE  ShardInv'
<1>1. ASSUME NEW c \in Calls, Start(c) PROVE ShardInv'
  BY <1>1 DEF Start, Goto, FirstStep, TypeOK, ShardInv, DropInv, JobInv, Busy
<1>2. ASSUME NEW c \in Calls, CheckCache(c) PROVE ShardInv'
  BY <1>2 DEF CheckCache, Found, Tell, Goto, TypeOK, ShardInv, DropInv, JobInv, Busy
<1>3. ASSUME NEW c \in Calls, TakeEntry(c) PROVE ShardInv'
  BY <1>3 DEF TakeEntry, Goto, TypeOK, ShardInv, DropInv, JobInv, Busy
<1>4. ASSUME NEW c \in Calls, Recheck(c) PROVE ShardInv'
  BY <1>4 DEF Recheck, Found, Tell, Goto, TypeOK, ShardInv, DropInv, JobInv, Busy
<1>5. ASSUME NEW c \in Calls, Insert(c) PROVE ShardInv'
  BY <1>5 DEF Insert, Release, Tell, Goto, TypeOK, ShardInv, DropInv, JobInv, Busy
<1>6. ASSUME NEW c \in Calls, Unlock(c) PROVE ShardInv'
  BY <1>6 DEF Unlock, Goto, TypeOK, ShardInv, DropInv, JobInv, Busy
<1>7. ASSUME NEW c \in Calls, DropGuard(c) PROVE ShardInv'
  BY <1>7 DEF DropGuard, Goto, TypeOK, ShardInv, DropInv, JobInv, Busy
<1>8. ASSUME NEW c \in Calls, FreeGuard(c) PROVE ShardInv'
  BY <1>8 DEF FreeGuard, Goto, TypeOK, ShardInv, DropInv, JobInv, Busy
<1>9. ASSUME NEW c \in Calls, Evict(c) PROVE ShardInv'
  BY <1>9 DEF Evict, Goto, TypeOK, ShardInv, DropInv, JobInv, Busy
<1>10. ASSUME NEW c \in Calls, Forget(c) PROVE ShardInv'
  BY <1>10 DEF Forget, Goto, TypeOK, ShardInv, DropInv, JobInv, Busy
<1>11. ASSUME NEW c \in Calls, Erase(c) PROVE ShardInv'
  BY <1>11 DEF Erase, Release, Tell, Goto, Present, TypeOK, ShardInv, DropInv, JobInv, Busy
<1>12. ASSUME NEW c \in Calls, EraseFails(c) PROVE ShardInv'
  BY <1>12 DEF EraseFails, Release, Fault, Tell, Goto, Present, TypeOK, ShardInv, DropInv, JobInv, Busy
<1>13. ASSUME NEW c \in Calls, Drain(c) PROVE ShardInv'
  BY <1>13 DEF Drain, Tell, Goto, TypeOK, ShardInv, DropInv, JobInv, Busy
<1>14. ASSUME NEW c \in Calls, Inspect(c) PROVE ShardInv'
  BY <1>14 DEF Inspect, JobFails, JobGoesOn, Tell, Goto, Present, TypeOK, ShardInv, DropInv, JobInv, Busy
<1>15. ASSUME NEW c \in Calls, Load(c) PROVE ShardInv'
  BY <1>15 DEF Load, JobBuilds, JobFails, Tell, Goto, Present, TypeOK, ShardInv, DropInv, JobInv, Busy
<1>16. ASSUME NEW c \in Calls, New(c) PROVE ShardInv'
  BY <1>16 DEF New, JobBuilds, JobFails, Tell, Goto, Present, TypeOK, ShardInv, DropInv, JobInv, Busy
<1>17. ASSUME NEW c \in Calls, ConstructionFails(c) PROVE ShardInv'
  BY <1>17 DEF ConstructionFails, Fault, JobFails, Tell, Goto, Present, TypeOK, ShardInv, DropInv, JobInv, Busy
<1>18. ASSUME NEW c \in Calls, Cancel(c) PROVE ShardInv'
  BY <1>18 DEF Cancel, Fault, Release, Tell, Goto, TypeOK, ShardInv, DropInv, JobInv, Busy
<1>19. CASE UNCHANGED vars
  BY <1>19 DEF vars, TypeOK, ShardInv, DropInv, JobInv, Busy
<1>20. QED
  BY <1>1, <1>2, <1>3, <1>4, <1>5, <1>6, <1>7, <1>8, <1>9, <1>10, <1>11, <1>12, <1>13, <1>14, <1>15, <1>16, <1>17, <1>18, <1>19 DEF Next, Step, Work, Over

\* Closures, calls and answers stay in step.
LEMMA JobStep ==
  ASSUME TypeOK, JobInv, DropInv, [Next]_vars
  PROVE  JobInv'
<1>1. ASSUME NEW c \in Calls, Start(c) PROVE JobInv'
  BY <1>1 DEF Start, Goto, FirstStep, TypeOK, JobInv, DropInv, Busy
<1>2. ASSUME NEW c \in Calls, CheckCache(c) PROVE JobInv'
  BY <1>2 DEF CheckCache, Found, Tell, Goto, TypeOK, JobInv, DropInv, Busy
<1>3. ASSUME NEW c \in Calls, TakeEntry(c) PROVE JobInv'
  BY <1>3 DEF TakeEntry, Goto, TypeOK, JobInv, DropInv, Busy
<1>4. ASSUME NEW c \in Calls, Recheck(c) PROVE JobInv'
  BY <1>4 DEF Recheck, Found, Tell, Goto, TypeOK, JobInv, DropInv, Busy
<1>5. ASSUME NEW c \in Calls, Insert(c) PROVE JobInv'
  BY <1>5 DEF Insert, Release, Tell, Goto, TypeOK, JobInv, DropInv, Busy
<1>6. ASSUME NEW c \in Calls, Unlock(c) PROVE JobInv'
  BY <1>6 DEF Unlock, Goto, TypeOK, JobInv, DropInv, Busy
<1>7. ASSUME NEW c \in Calls, DropGuard(c) PROVE JobInv'
  BY <1>7 DEF DropGuard, Goto, TypeOK, JobInv, DropInv, Busy
<1>8. ASSUME NEW c \in Calls, FreeGuard(c) PROVE JobInv'
  BY <1>8 DEF FreeGuard, Goto, TypeOK, JobInv, DropInv, Busy
<1>9. ASSUME NEW c \in Calls, Evict(c) PROVE JobInv'
  BY <1>9 DEF Evict, Goto, TypeOK, JobInv, DropInv, Busy
<1>10. ASSUME NEW c \in Calls, Forget(c) PROVE JobInv'
  BY <1>10 DEF Forget, Goto, TypeOK, JobInv, DropInv, Busy
<1>11. ASSUME NEW c \in Calls, Erase(c) PROVE JobInv'
  BY <1>11 DEF Erase, Release, Tell, Goto, Present, TypeOK, JobInv, DropInv, Busy
<1>12. ASSUME NEW c \in Calls, EraseFails(c) PROVE JobInv'
  BY <1>12 DEF EraseFails, Release, Fault, Tell, Goto, Present, TypeOK, JobInv, DropInv, Busy
<1>13. ASSUME NEW c \in Calls, Drain(c) PROVE JobInv'
  BY <1>13 DEF Drain, Tell, Goto, TypeOK, JobInv, DropInv, Busy
<1>14. ASSUME NEW c \in Calls, Inspect(c) PROVE JobInv'
  BY <1>14 DEF Inspect, JobFails, JobGoesOn, Tell, Goto, Present, TypeOK, JobInv, DropInv, Busy
<1>15. ASSUME NEW c \in Calls, Load(c) PROVE JobInv'
  BY <1>15 DEF Load, JobBuilds, JobFails, Tell, Goto, Present, TypeOK, JobInv, DropInv, Busy
<1>16. ASSUME NEW c \in Calls, New(c) PROVE JobInv'
  BY <1>16 DEF New, JobBuilds, JobFails, Tell, Goto, Present, TypeOK, JobInv, DropInv, Busy
<1>17. ASSUME NEW c \in Calls, ConstructionFails(c) PROVE JobInv'
  BY <1>17 DEF ConstructionFails, Fault, JobFails, Tell, Goto, Present, TypeOK, JobInv, DropInv, Busy
<1>18. ASSUME NEW c \in Calls, Cancel(c) PROVE JobInv'
  BY <1>18 DEF Cancel, Fault, Release, Tell, Goto, TypeOK, JobInv, DropInv, Busy
<1>19. CASE UNCHANGED vars
  BY <1>19 DEF vars, TypeOK, JobInv, DropInv, Busy
<1>20. QED
  BY <1>1, <1>2, <1>3, <1>4, <1>5, <1>6, <1>7, <1>8, <1>9, <1>10, <1>11, <1>12, <1>13, <1>14, <1>15, <1>16, <1>17, <1>18, <1>19 DEF Next, Step, Work, Over

\* The published shard stays the one on disk.
LEMMA CacheStep ==
  ASSUME TypeOK, CachedShardOnDisk, ShardInv, DropInv, [Next]_vars
  PROVE  CachedShardOnDisk'
<1>1. ASSUME NEW c \in Calls, Start(c) PROVE CachedShardOnDisk'
  BY <1>1 DEF Start, Goto, FirstStep, TypeOK, CachedShardOnDisk, ShardInv, DropInv, Busy
<1>2. ASSUME NEW c \in Calls, CheckCache(c) PROVE CachedShardOnDisk'
  BY <1>2 DEF CheckCache, Found, Tell, Goto, TypeOK, CachedShardOnDisk, ShardInv, DropInv, Busy
<1>3. ASSUME NEW c \in Calls, TakeEntry(c) PROVE CachedShardOnDisk'
  BY <1>3 DEF TakeEntry, Goto, TypeOK, CachedShardOnDisk, ShardInv, DropInv, Busy
<1>4. ASSUME NEW c \in Calls, Recheck(c) PROVE CachedShardOnDisk'
  BY <1>4 DEF Recheck, Found, Tell, Goto, TypeOK, CachedShardOnDisk, ShardInv, DropInv, Busy
<1>5. ASSUME NEW c \in Calls, Insert(c) PROVE CachedShardOnDisk'
  BY <1>5 DEF Insert, Release, Tell, Goto, TypeOK, CachedShardOnDisk, ShardInv, DropInv, Busy
<1>6. ASSUME NEW c \in Calls, Unlock(c) PROVE CachedShardOnDisk'
  BY <1>6 DEF Unlock, Goto, TypeOK, CachedShardOnDisk, ShardInv, DropInv, Busy
<1>7. ASSUME NEW c \in Calls, DropGuard(c) PROVE CachedShardOnDisk'
  BY <1>7 DEF DropGuard, Goto, TypeOK, CachedShardOnDisk, ShardInv, DropInv, Busy
<1>8. ASSUME NEW c \in Calls, FreeGuard(c) PROVE CachedShardOnDisk'
  BY <1>8 DEF FreeGuard, Goto, TypeOK, CachedShardOnDisk, ShardInv, DropInv, Busy
<1>9. ASSUME NEW c \in Calls, Evict(c) PROVE CachedShardOnDisk'
  BY <1>9 DEF Evict, Goto, TypeOK, CachedShardOnDisk, ShardInv, DropInv, Busy
<1>10. ASSUME NEW c \in Calls, Forget(c) PROVE CachedShardOnDisk'
  BY <1>10 DEF Forget, Goto, TypeOK, CachedShardOnDisk, ShardInv, DropInv, Busy
<1>11. ASSUME NEW c \in Calls, Erase(c) PROVE CachedShardOnDisk'
  BY <1>11 DEF Erase, Release, Tell, Goto, Present, TypeOK, CachedShardOnDisk, ShardInv, DropInv, Busy
<1>12. ASSUME NEW c \in Calls, EraseFails(c) PROVE CachedShardOnDisk'
  BY <1>12 DEF EraseFails, Release, Fault, Tell, Goto, Present, TypeOK, CachedShardOnDisk, ShardInv, DropInv, Busy
<1>13. ASSUME NEW c \in Calls, Drain(c) PROVE CachedShardOnDisk'
  BY <1>13 DEF Drain, Tell, Goto, TypeOK, CachedShardOnDisk, ShardInv, DropInv, Busy
<1>14. ASSUME NEW c \in Calls, Inspect(c) PROVE CachedShardOnDisk'
  BY <1>14 DEF Inspect, JobFails, JobGoesOn, Tell, Goto, Present, TypeOK, CachedShardOnDisk, ShardInv, DropInv, Busy
<1>15. ASSUME NEW c \in Calls, Load(c) PROVE CachedShardOnDisk'
  BY <1>15 DEF Load, JobBuilds, JobFails, Tell, Goto, Present, TypeOK, CachedShardOnDisk, ShardInv, DropInv, Busy
<1>16. ASSUME NEW c \in Calls, New(c) PROVE CachedShardOnDisk'
  BY <1>16 DEF New, JobBuilds, JobFails, Tell, Goto, Present, TypeOK, CachedShardOnDisk, ShardInv, DropInv, Busy
<1>17. ASSUME NEW c \in Calls, ConstructionFails(c) PROVE CachedShardOnDisk'
  BY <1>17 DEF ConstructionFails, Fault, JobFails, Tell, Goto, Present, TypeOK, CachedShardOnDisk, ShardInv, DropInv, Busy
<1>18. ASSUME NEW c \in Calls, Cancel(c) PROVE CachedShardOnDisk'
  BY <1>18 DEF Cancel, Fault, Release, Tell, Goto, TypeOK, CachedShardOnDisk, ShardInv, DropInv, Busy
<1>19. CASE UNCHANGED vars
  BY <1>19 DEF vars, TypeOK, CachedShardOnDisk, ShardInv, DropInv, Busy
<1>20. QED
  BY <1>1, <1>2, <1>3, <1>4, <1>5, <1>6, <1>7, <1>8, <1>9, <1>10, <1>11, <1>12, <1>13, <1>14, <1>15, <1>16, <1>17, <1>18, <1>19 DEF Next, Step, Work, Over

\* EdgeInv is inductive if DROP runs alone.
LEMMA Invariance ==
  ASSUME DropsAlone
  PROVE  Spec => []EdgeInv
<1>1. Init => EdgeInv
  BY DEF Init, EdgeInv, TypeOK, CachedShardOnDisk, LockInv, DropInv, ShardInv, JobInv, Busy
<1>2. EdgeInv /\ [Next]_vars => EdgeInv'
  BY TypeStep, LockStep, DropStep, ShardStep, JobStep, CacheStep, DropsAlone DEF EdgeInv
<1> QED
  BY <1>1, <1>2, PTL DEF Spec

\* The variables of EdgeShards keep their types, whatever the callers do.
THEOREM TypeCorrect == Spec => []TypeOK
<1>1. Init => TypeOK
  BY DEF Init, TypeOK
<1>2. TypeOK /\ [Next]_vars => TypeOK'
  BY TypeStep
<1> QED
  BY <1>1, <1>2, PTL DEF Spec

\* If DROP runs alone, at most one of the calls that are waited for constructs
\* the shard: the opening mutex of open_shard_inner is never replaced under a
\* waiter by OpeningGuard::drop.
THEOREM ConstructionSerialised ==
  ASSUME DropsAlone
  PROVE  Spec => []OneConstruction
<1>1. EdgeInv => OneConstruction
  BY DEF EdgeInv, LockInv, OneConstruction
<1> QED
  BY <1>1, Invariance, PTL

\* If DROP runs alone, the open shard is the one of the directory on disk.
THEOREM MapMatchesDisk ==
  ASSUME DropsAlone
  PROVE  Spec => []CachedShardOnDisk
<1>1. EdgeInv => CachedShardOnDisk
  BY DEF EdgeInv
<1> QED
  BY <1>1, Invariance, PTL

\* Each step of the backend is one step of the contract, or none.
LEMMA StepIsAllowed ==
  ASSUME EdgeInv, [Next]_vars
  PROVE  [Contract!Next]_(Contract!vars)
<1> DEFINE Own == IF Present THEN disk ELSE "none"
<1> DEFINE Stutter == UNCHANGED <<kind, Own, answer>>
<1> USE DEF Contract!Tell, Contract!Exists, Goto
<1>1. ASSUME NEW c \in Calls, Start(c) PROVE Contract!Ask(c)
  BY <1>1 DEF Start, Contract!Ask, Present, EdgeInv, TypeOK, JobInv
<1>2. ASSUME NEW c \in Calls, CheckCache(c)
      PROVE  Contract!Open(c) \/ Contract!Create(c) \/ Stutter
  BY <1>2 DEF CheckCache, Found, Tell, Contract!Open, Contract!Create, Present,
              EdgeInv, TypeOK, JobInv, CachedShardOnDisk
<1>3. ASSUME NEW c \in Calls, Recheck(c)
      PROVE  Contract!Open(c) \/ Contract!Create(c) \/ Stutter
  BY <1>3 DEF Recheck, Found, Tell, Contract!Open, Contract!Create, Present,
              EdgeInv, TypeOK, JobInv, CachedShardOnDisk
<1>4. ASSUME NEW c \in Calls,
             TakeEntry(c) \/ Unlock(c) \/ DropGuard(c) \/ FreeGuard(c) \/ Evict(c) \/ Forget(c)
      PROVE  Stutter
  BY <1>4 DEF TakeEntry, Unlock, DropGuard, FreeGuard, Evict, Forget, Present
<1>5. ASSUME NEW c \in Calls, Insert(c) PROVE Contract!Open(c) \/ Contract!Create(c)
  <2>1. /\ kind[c] \in {"open", "create"} /\ answer[c] = "open"
        /\ shard[c] = disk /\ (kind[c] = "create" => disk = c)
    BY <1>5 DEF Insert, EdgeInv, JobInv, ShardInv
  <2>2. Present
    BY <1>5, <2>1 DEF Insert, EdgeInv, TypeOK, Present
  <2> QED
    BY <1>5, <2>1, <2>2 DEF Insert, Release, Tell, Contract!Open, Contract!Create, Present
<1>6. ASSUME NEW c \in Calls, Erase(c) PROVE Contract!Delete(c)
  <2>1. kind[c] = "delete" /\ answer[c] = "open" /\ shard[c] \in {None, disk}
    BY <1>6 DEF Erase, EdgeInv, DropInv, JobInv
  <2>2. shard[c] # None => Present
    BY <2>1 DEF EdgeInv, TypeOK, Present
  <2> QED
    BY <1>6, <2>1, <2>2 DEF Erase, Release, Tell, Contract!Delete, Present
<1>7. ASSUME NEW c \in Calls, EraseFails(c) PROVE Contract!Delete(c) \/ Contract!Fail(c)
  <2>1. kind[c] = "delete" /\ answer[c] = "open"
    BY <1>7 DEF EraseFails, EdgeInv, DropInv, JobInv
  <2> QED
    BY <1>7, <2>1 DEF EraseFails, Release, Tell, Contract!Delete, Contract!Fail, Present
<1>8. ASSUME NEW c \in Calls, Drain(c) PROVE Contract!Close(c)
  BY <1>8 DEF Drain, Tell, Contract!Close, Present, EdgeInv, JobInv
<1>9. ASSUME NEW c \in Calls, Inspect(c)
      PROVE  Contract!Open(c) \/ Contract!Create(c) \/ Stutter
  BY <1>9 DEF Inspect, JobFails, JobGoesOn, Tell, Contract!Open, Contract!Create, Present,
              EdgeInv, TypeOK, JobInv
<1>10. ASSUME NEW c \in Calls, Load(c) PROVE Contract!Fail(c) \/ Stutter
  BY <1>10 DEF Load, JobBuilds, JobFails, Tell, Contract!Fail, Present, EdgeInv, JobInv
<1>11. ASSUME NEW c \in Calls, New(c) PROVE Contract!Make(c) \/ Contract!Fail(c) \/ Stutter
  <2>1. kind[c] = "create" /\ answer[c] # "ok" /\ (pc[c] = "job" => answer[c] = "open")
    BY <1>11 DEF New, EdgeInv, JobInv
  <2> QED
    BY <1>11, <2>1 DEF New, JobBuilds, JobFails, Tell, Contract!Make, Contract!Fail, Present
<1>12. ASSUME NEW c \in Calls, ConstructionFails(c)
       PROVE  Contract!Make(c) \/ Contract!Fail(c) \/ Stutter
  <2>1. answer[c] # "ok" /\ (pc[c] = "job" => answer[c] = "open")
    BY <1>12 DEF ConstructionFails, EdgeInv, JobInv
  <2>2. CASE job[c] = "new" /\ ~Present /\ disk' = c
    BY <1>12, <2>1, <2>2 DEF ConstructionFails, JobFails, Tell, Contract!Make, Present,
                             EdgeInv, JobInv
  <2>3. CASE ~(job[c] = "new" /\ ~Present /\ disk' = c)
    <3>1. Own' = Own
      BY <1>12, <2>3 DEF ConstructionFails, Present
    <3> QED
      BY <1>12, <2>1, <3>1 DEF ConstructionFails, JobFails, Tell, Contract!Fail, Present
  <2> QED
    BY <2>2, <2>3
<1>13. ASSUME NEW c \in Calls, Cancel(c) PROVE Contract!Fail(c)
  BY <1>13 DEF Cancel, Release, Tell, Contract!Fail, Present, EdgeInv, JobInv
<1>14. ASSUME UNCHANGED vars PROVE Stutter
  BY <1>14 DEF vars, Present
<1>15. Stutter => UNCHANGED Contract!vars
  BY DEF Contract!vars
<1> HIDE DEF Stutter
<1> QED
  BY <1>1, <1>2, <1>3, <1>4, <1>5, <1>6, <1>7, <1>8, <1>9, <1>10, <1>11, <1>12, <1>13, <1>14,
     <1>15 DEF Next, Step, Work, Over, Contract!Next

\* If DROP runs alone, every answer of the backend is one that a collection
\* that exists or not could have given at some moment of the call.
THEOREM ImplementsContract ==
  ASSUME DropsAlone
  PROVE  Spec => KeepsContract
<1>1. Init => Contract!Init
  BY DEF Init, Contract!Init, Present
<1>2. EdgeInv /\ [Next]_vars => [Contract!Next]_(Contract!vars)
  BY StepIsAllowed
<1> QED
  BY <1>1, <1>2, Invariance, PTL DEF Spec, Contract!Spec, KeepsContract

=============================================================================
