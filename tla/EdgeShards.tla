----------------------------- MODULE EdgeShards -----------------------------
(***************************************************************************)
(* EdgeQdrant: the shard of one collection, opened, created, deleted and   *)
(* closed by concurrent calls (crates/qql-edge/src/backend/mod.rs, ops.rs).*)
(*                                                                         *)
(* A call that misses the map of open shards waits for the                 *)
(* collection's opening mutex, looks again, and constructs the shard on    *)
(* the blocking pool; its OpeningGuard then removes the mutex from the map *)
(* unless another call still refers to it.  Every await is a step of its   *)
(* own, and so is each access to the file system.                          *)
(***************************************************************************)
EXTENDS Naturals, FiniteSets

CONSTANTS
  Calls,      \* the calls; each is made at most once
  Kinds,      \* what they may ask for
  DropsAlone, \* the callers run DROP COLLECTION alone
  MaxFaults   \* bound on engine errors and cancelled calls

None == "none"

ASSUME EdgeAssumption ==
  /\ Calls \cap {None, "old", "absent", "dir"} = {}
  /\ IsFiniteSet(Calls)
  /\ Kinds \subseteq {"open", "create", "delete", "close"}
  /\ DropsAlone \in BOOLEAN /\ MaxFaults \in Nat

VARIABLES
  kind,   \* what each call asks for
  pc,     \* where it is
  answer, \* what it has been told
  cached, \* shards[name]: whose directory the open shard was loaded from
  entry,  \* opening[name]: the mutex, named after the call that made it
  lockOf, \* the mutex the call's OpeningGuard refers to
  holder, \* who has locked each mutex
  job,    \* what the call's spawn_blocking closure has to do
  shard,  \* the shard a call has constructed, or a DROP has evicted
  disk,   \* the directory: absent, empty ("dir"), or with the segments of a create
  faults  \* faults so far

vars == <<kind, pc, answer, cached, entry, lockOf, holder, job, shard, disk, faults>>

Owners == Calls \cup {"old"}

Present == disk \in Owners

Busy(c) == pc[c] \notin {"idle", "done"}

TypeOK ==
  /\ kind \in [Calls -> Kinds \cup {None}]
  /\ pc \in [Calls -> {"idle", "check", "entry", "wait", "job", "insert", "unlock", "guard",
                       "free", "evict", "forget", "erase", "drain", "done"}]
  /\ answer \in [Calls -> {"open", "ok", "missing", "exists", "error", "cancelled"}]
  /\ cached \in Owners \cup {None} /\ disk \in Owners \cup {"absent", "dir"}
  /\ entry \in Calls \cup {None} /\ lockOf \in [Calls -> Calls \cup {None}]
  /\ holder \in [Calls -> Calls \cup {None}]
  /\ job \in [Calls -> {None, "inspect", "load", "new"}]
  /\ shard \in [Calls -> Owners \cup {None}]
  /\ faults \in 0..MaxFaults
  /\ \A c \in Calls :
       /\ pc[c] = "insert" => shard[c] # None
       /\ lockOf[c] # None <=> pc[c] \in {"wait", "job", "insert", "unlock", "guard", "free"}

Init ==
  /\ kind = [c \in Calls |-> None]
  /\ pc = [c \in Calls |-> "idle"]
  /\ answer = [c \in Calls |-> "open"]
  /\ cached = None /\ entry = None
  /\ lockOf = [c \in Calls |-> None]
  /\ holder = [c \in Calls |-> None]
  /\ job = [c \in Calls |-> None]
  /\ shard = [c \in Calls |-> None]
  /\ disk \in {"old", "absent"}
  /\ faults = 0

Goto(c, label) == pc' = [pc EXCEPT ![c] = label]
Tell(c, what) == answer' = [answer EXCEPT ![c] = what]
Release(c) == shard' = [shard EXCEPT ![c] = None]
Fault == faults < MaxFaults /\ faults' = faults + 1

FirstStep ==
  [open |-> "check", create |-> "check", delete |-> "evict", close |-> "drain"]

\* The environment: a call is made; a DROP only while nothing else runs, if
\* DropsAlone.
Start(c) ==
  /\ pc[c] = "idle"
  /\ \E k \in Kinds :
       /\ DropsAlone => \A d \in Calls : Busy(d) => "delete" \notin {k, kind[d]}
       /\ kind' = [kind EXCEPT ![c] = k]
       /\ Goto(c, FirstStep[k])
  /\ UNCHANGED <<answer, cached, entry, lockOf, holder, job, shard, disk, faults>>

-----------------------------------------------------------------------------
(* open_shard_inner *)

\* The answer to a call that finds the shard open.
Found(c) == Tell(c, IF kind[c] = "create" THEN "exists" ELSE "ok")

CheckCache(c) ==
  /\ pc[c] = "check"
  /\ IF cached # None THEN Found(c) /\ Goto(c, "done") ELSE Goto(c, "entry") /\ answer' = answer
  /\ UNCHANGED <<kind, cached, entry, lockOf, holder, job, shard, disk, faults>>

\* The collection's mutex is found or made, and the call waits for it.
TakeEntry(c) ==
  /\ pc[c] = "entry"
  /\ entry' = IF entry = None THEN c ELSE entry
  /\ lockOf' = [lockOf EXCEPT ![c] = entry']
  /\ Goto(c, "wait")
  /\ UNCHANGED <<kind, answer, cached, holder, job, shard, disk, faults>>

\* The lock is granted, and the call looks again.
Recheck(c) ==
  /\ pc[c] = "wait" /\ holder[lockOf[c]] = None
  /\ holder' = [holder EXCEPT ![lockOf[c]] = c]
  /\ IF cached # None
     THEN Found(c) /\ Goto(c, "unlock") /\ job' = job
     ELSE job' = [job EXCEPT ![c] = "inspect"] /\ Goto(c, "job") /\ answer' = answer
  /\ UNCHANGED <<kind, cached, entry, lockOf, shard, disk, faults>>

\* The closure ends with an error, which nobody hears if the call was cancelled.
JobFails(c, what) ==
  /\ job' = [job EXCEPT ![c] = None]
  /\ IF pc[c] = "job" THEN Tell(c, what) /\ Goto(c, "unlock") ELSE UNCHANGED <<answer, pc>>
  /\ shard' = shard

\* The closure ends with a shard, which is dropped if the call was cancelled.
JobBuilds(c, owner) ==
  /\ job' = [job EXCEPT ![c] = None]
  /\ IF pc[c] = "job"
     THEN shard' = [shard EXCEPT ![c] = owner] /\ Goto(c, "insert")
     ELSE UNCHANGED <<shard, pc>>
  /\ answer' = answer

JobGoesOn(c, next) ==
  job' = [job EXCEPT ![c] = next] /\ UNCHANGED <<answer, pc, shard>>

\* Mutant: a create that finds segments takes them over.
InspectForgiving(c) ==
  /\ job[c] = "inspect"
  /\ JobGoesOn(c, IF kind[c] = "create" /\ ~Present THEN "new" ELSE "load")
  /\ UNCHANGED <<kind, cached, entry, lockOf, holder, disk, faults>>

\* path.join("segments").exists()
Inspect(c) ==
  /\ job[c] = "inspect"
  /\ \/ kind[c] = "open" /\ Present /\ JobGoesOn(c, "load")
     \/ kind[c] = "open" /\ ~Present /\ JobFails(c, "missing")
     \/ kind[c] = "create" /\ Present /\ JobFails(c, "exists")
     \/ kind[c] = "create" /\ ~Present /\ JobGoesOn(c, "new")
  /\ UNCHANGED <<kind, cached, entry, lockOf, holder, disk, faults>>

Load(c) ==
  /\ job[c] = "load"
  /\ IF Present THEN JobBuilds(c, disk) ELSE JobFails(c, "error")
  /\ UNCHANGED <<kind, cached, entry, lockOf, holder, disk, faults>>

\* The engine refuses to create a shard over existing segments.
New(c) ==
  /\ job[c] = "new"
  /\ IF Present THEN JobFails(c, "error") /\ disk' = disk ELSE JobBuilds(c, c) /\ disk' = c
  /\ UNCHANGED <<kind, cached, entry, lockOf, holder, faults>>

\* An engine error, or a panic in the closure; a create may have got to the
\* directory or to its segments by then.
ConstructionFails(c) ==
  /\ job[c] \in {"load", "new"}
  /\ Fault
  /\ JobFails(c, "error")
  /\ disk' \in IF job[c] = "new" /\ ~Present THEN {disk, "dir", c} ELSE {disk}
  /\ UNCHANGED <<kind, cached, entry, lockOf, holder>>

Insert(c) ==
  /\ pc[c] = "insert"
  /\ cached' = shard[c] /\ Release(c)
  /\ Tell(c, "ok")
  /\ Goto(c, "unlock")
  /\ UNCHANGED <<kind, entry, lockOf, holder, job, disk, faults>>

\* The lock guard is dropped before the OpeningGuard.
Unlock(c) ==
  /\ pc[c] = "unlock"
  /\ holder' = [holder EXCEPT ![lockOf[c]] = None]
  /\ Goto(c, "guard")
  /\ UNCHANGED <<kind, answer, cached, entry, lockOf, job, shard, disk, faults>>

\* Arc::strong_count of a mutex: the map's reference and the guards'.
StrongCount(lock) ==
  (IF entry = lock THEN 1 ELSE 0) + Cardinality({d \in Calls : lockOf[d] = lock})

\* Mutant: the entry is removed whoever waits behind it.
DropGuardAlways(c) ==
  /\ pc[c] = "guard"
  /\ entry' = IF entry = lockOf[c] THEN None ELSE entry
  /\ Goto(c, "free")
  /\ UNCHANGED <<kind, answer, cached, lockOf, holder, job, shard, disk, faults>>

\* OpeningGuard::drop; its own reference to the mutex goes a moment later.
DropGuard(c) ==
  /\ pc[c] = "guard"
  /\ entry' = IF entry = lockOf[c] /\ StrongCount(entry) <= 2 THEN None ELSE entry
  /\ Goto(c, "free")
  /\ UNCHANGED <<kind, answer, cached, lockOf, holder, job, shard, disk, faults>>

FreeGuard(c) ==
  /\ pc[c] = "free"
  /\ lockOf' = [lockOf EXCEPT ![c] = None]
  /\ Goto(c, "done")
  /\ UNCHANGED <<kind, answer, cached, entry, holder, job, shard, disk, faults>>

\* Mutants: a cancelled call does not drop its guard, or keeps the lock.
CancelUnguarded(c) ==
  /\ pc[c] \in {"check", "wait", "job", "insert"}
  /\ Fault
  /\ Tell(c, "cancelled") /\ Release(c)
  /\ Goto(c, IF pc[c] \in {"check", "wait"} THEN "done" ELSE "unlock")
  /\ UNCHANGED <<kind, cached, entry, lockOf, holder, job, disk>>

CancelLocked(c) ==
  /\ pc[c] \in {"check", "wait", "job", "insert"}
  /\ Fault
  /\ Tell(c, "cancelled") /\ Release(c)
  /\ Goto(c, IF pc[c] = "check" THEN "done" ELSE "guard")
  /\ UNCHANGED <<kind, cached, entry, lockOf, holder, job, disk>>

\* The call's future is dropped at an await, by a timeout for example; its
\* closure goes on.
Cancel(c) ==
  /\ pc[c] \in {"check", "wait", "job", "insert"}
  /\ Fault
  /\ Tell(c, "cancelled") /\ Release(c)
  /\ Goto(c, CASE pc[c] = "check" -> "done" [] pc[c] = "wait" -> "guard" [] OTHER -> "unlock")
  /\ UNCHANGED <<kind, cached, entry, lockOf, holder, job, disk>>

-----------------------------------------------------------------------------
(* delete_collection and close *)

\* Mutant: the open shard stays in the map.
EvictNothing(c) ==
  /\ pc[c] = "evict"
  /\ shard' = [shard EXCEPT ![c] = cached]
  /\ Goto(c, "forget")
  /\ UNCHANGED <<kind, answer, cached, entry, lockOf, holder, job, disk, faults>>

Evict(c) ==
  /\ pc[c] = "evict"
  /\ shard' = [shard EXCEPT ![c] = cached]
  /\ cached' = None
  /\ Goto(c, "forget")
  /\ UNCHANGED <<kind, answer, entry, lockOf, holder, job, disk, faults>>

Forget(c) ==
  /\ pc[c] = "forget"
  /\ entry' = None
  /\ Goto(c, "erase")
  /\ UNCHANGED <<kind, answer, cached, lockOf, holder, job, shard, disk, faults>>

Erase(c) ==
  /\ pc[c] = "erase"
  /\ IF shard[c] = None /\ ~Present
     THEN Tell(c, "missing") /\ disk' = disk
     ELSE Tell(c, "ok") /\ disk' = "absent"
  /\ Goto(c, "done") /\ Release(c)
  /\ UNCHANGED <<kind, cached, entry, lockOf, holder, job, faults>>

\* remove_dir_all fails, perhaps half way.
EraseFails(c) ==
  /\ pc[c] = "erase" /\ Present
  /\ Fault
  /\ disk' \in {disk, "dir"}
  /\ Tell(c, "error")
  /\ Goto(c, "done") /\ Release(c)
  /\ UNCHANGED <<kind, cached, entry, lockOf, holder, job>>

Drain(c) ==
  /\ pc[c] = "drain"
  /\ cached' = None
  /\ Tell(c, "ok")
  /\ Goto(c, "done")
  /\ UNCHANGED <<kind, entry, lockOf, holder, job, shard, disk, faults>>

\* Every call has returned.
Over == (\A c \in Calls : pc[c] = "done" /\ job[c] = None) /\ UNCHANGED vars

-----------------------------------------------------------------------------

\* What a call does by itself once it is made.
Step(c) ==
  \/ CheckCache(c) \/ TakeEntry(c) \/ Recheck(c)
  \/ Insert(c) \/ Unlock(c) \/ DropGuard(c) \/ FreeGuard(c)
  \/ Evict(c) \/ Forget(c) \/ Erase(c) \/ EraseFails(c) \/ Drain(c)

\* What its closure does on the blocking pool.
Work(c) == Inspect(c) \/ Load(c) \/ New(c) \/ ConstructionFails(c)

Next == Over \/ \E c \in Calls : Start(c) \/ Step(c) \/ Work(c) \/ Cancel(c)

Spec == Init /\ [][Next]_vars

\* The runtime polls every task that can go on and runs every closure.
FairSpec == Spec /\ \A c \in Calls : WF_vars(Step(c)) /\ WF_vars(Work(c))

-----------------------------------------------------------------------------
(* Properties. *)

\* Construction is serialised: of the calls that are still waited for, at most
\* one is loading or creating the shard or about to publish it.
OneConstruction ==
  \A c, d \in Calls : {pc[c], pc[d]} \subseteq {"job", "insert"} => c = d

\* The shard in the map was loaded from the directory that is on disk now.
CachedShardOnDisk == cached # None => cached = disk

\* A call waits for, or holds, the mutex that the map knows, and holds it from
\* its second look at the map until it unlocks.
LockInv ==
  \A c \in Calls :
    /\ pc[c] \in {"wait", "job", "insert", "unlock"} => lockOf[c] = entry
    /\ pc[c] \in {"job", "insert", "unlock"} => holder[lockOf[c]] = c

\* A DROP that is under way is alone and has emptied the map.
DropInv ==
  \A c \in Calls :
    /\ pc[c] \in {"evict", "forget", "erase"} <=> kind[c] = "delete" /\ Busy(c)
    /\ kind[c] = "delete" /\ Busy(c) => \A d \in Calls \ {c} : ~Busy(d)
    /\ pc[c] \in {"forget", "erase"} =>
         cached = None /\ shard[c] \in {None, disk}

\* What a call is about to publish is what is on disk.
ShardInv ==
  \A c \in Calls :
    pc[c] = "insert" => shard[c] = disk /\ (kind[c] = "create" => disk = c)

\* A closure works for a call that waits for it, or for one that was cancelled,
\* and a call has no answer before its last step.
JobInv ==
  \A c \in Calls :
    /\ pc[c] = "idle" <=> kind[c] = None
    /\ pc[c] = "drain" => kind[c] = "close"
    /\ pc[c] \in {"check", "entry", "wait", "job", "insert"} => kind[c] \in {"open", "create"}
    /\ job[c] = "inspect" => kind[c] \in {"open", "create"}
    /\ job[c] = "load" => kind[c] = "open"
    /\ job[c] = "new" => kind[c] = "create"
    /\ pc[c] = "job" => job[c] # None
    /\ job[c] # None /\ pc[c] # "job" => answer[c] = "cancelled"
    /\ pc[c] \in {"idle", "check", "entry", "wait", "job", "insert", "evict", "forget", "erase",
                  "drain"} => answer[c] = "open"

\* The inductive invariant of the theorems, if DROP runs alone.
EdgeInv == TypeOK /\ CachedShardOnDisk /\ LockInv /\ DropInv /\ ShardInv /\ JobInv

\* Every answer is one that the collection, seen as a single thing that exists
\* or not, could have given at some moment of the call.
Contract == INSTANCE EdgeContract WITH owner <- IF Present THEN disk ELSE "none"

KeepsContract == Contract!Spec

\* Whatever fails or is cancelled, every call returns: no mutex stays locked
\* and no waiter is forgotten.
CallsReturn == \A c \in Calls : Busy(c) ~> pc[c] = "done"

\* "reads and mutations against a missing collection return
\* QQL-EDGE-COLLECTION-NOT-FOUND instead of materialising a ghost collection"
\* (mod.rs, open_shard): when no call is under way, an open shard has its
\* directory.
NoGhost == (\A c \in Calls : ~Busy(c)) => CachedShardOnDisk
=============================================================================
