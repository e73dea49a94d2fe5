----------------------------- MODULE ModelCache -----------------------------
(***************************************************************************)
(* The process-wide caches of loaded models of qql-edge                    *)
(* (embedder/cache.rs) and the constructions of an embedder that go        *)
(* through them one slot after the other (embedder/construct.rs).          *)
(*                                                                         *)
(* The cache holds weak references: an embedder is the only owner of its   *)
(* models, and a model whose last owner is dropped is freed.  A load runs  *)
(* under a lock of its own per slot and model; the cache is looked at once *)
(* before that lock is taken and once under it.  A load may succeed, fail, *)
(* or panic, which poisons its lock for as long as the process lives.      *)
(***************************************************************************)
EXTENDS Naturals, Sequences, FiniteSets

CONSTANTS
  Hosts,     \* threads that construct and drop embedders
  Models,    \* keys of the caches: a slot, a model name, a cache directory
  Configs,   \* what a host may configure: its models in slot order
  Ids        \* tells one loaded copy of a model from another (a bound)

None == <<>>       \* no entry, nobody

ASSUME ModelCacheAssumption ==
  /\ None \notin Hosts
  /\ Configs \subseteq {c \in Seq(Models) :
                          \A i, j \in DOMAIN c : c[i] = c[j] => i = j}

VARIABLES
  pc,        \* where the host is in try_with_options and load_cached
  todo,      \* slots still to be filled, the current one first
  held,      \* models owned by the embedder of the host, or by its construction
  cache,     \* the weak entry of each key
  loadLock,  \* who holds the load lock of each key
  poisoned   \* load locks a panic has poisoned

vars == <<pc, todo, held, cache, loadLock, poisoned>>

Alloc == Models \X Ids   \* a loaded model

Live == UNION {held[h] : h \in Hosts}
Upgrades(m) == cache[m] \in Live

Cur(h) == Head(todo[h])

-----------------------------------------------------------------------------
Init ==
  /\ pc = [h \in Hosts |-> "idle"]
  /\ todo = [h \in Hosts |-> <<>>]
  /\ held = [h \in Hosts |-> {}]
  /\ cache = [m \in Models |-> None]
  /\ loadLock = [m \in Models |-> None]
  /\ poisoned = {}

Goto(h, l) == pc' = [pc EXCEPT ![h] = l]

\* A mutant of Fail: the slots filled before the error stay owned.
FailKeepsSlots(h) ==
  /\ Goto(h, "idle")
  /\ todo' = [todo EXCEPT ![h] = <<>>]
  /\ UNCHANGED held

\* The construction returns an error: what it owned is dropped.
Fail(h) ==
  /\ Goto(h, "idle")
  /\ todo' = [todo EXCEPT ![h] = <<>>]
  /\ held' = [held EXCEPT ![h] = {}]

Unlock(h) == loadLock' = [loadLock EXCEPT ![Cur(h)] = None]

\* load_cached returns the model the entry upgrades to; the next slot follows.
Share(h) ==
  /\ held' = [held EXCEPT ![h] = @ \union {cache[Cur(h)]}]
  /\ todo' = [todo EXCEPT ![h] = Tail(@)]
  /\ Goto(h, "check")

Construct(h) ==
  /\ pc[h] = "idle"
  /\ \E c \in Configs : todo' = [todo EXCEPT ![h] = c]
  /\ Goto(h, "check")
  /\ UNCHANGED <<held, cache, loadLock, poisoned>>

\* A model name that is not in the catalog, or a BM25 configuration in error.
Refuse(h) ==
  /\ pc[h] = "check"
  /\ Fail(h)
  /\ UNCHANGED <<cache, loadLock, poisoned>>

\* The look without the load lock.
Check(h) ==
  /\ pc[h] = "check" /\ todo[h] # <<>>
  /\ \/ Upgrades(Cur(h)) /\ Share(h)
     \/ ~Upgrades(Cur(h)) /\ Goto(h, "lock") /\ UNCHANGED <<todo, held>>
  /\ UNCHANGED <<cache, loadLock, poisoned>>

Lock(h) ==
  /\ pc[h] = "lock" /\ loadLock[Cur(h)] = None
  /\ \/ /\ Cur(h) \in poisoned
        /\ Fail(h)
        /\ UNCHANGED loadLock
     \/ /\ Cur(h) \notin poisoned
        /\ loadLock' = [loadLock EXCEPT ![Cur(h)] = h]
        /\ Goto(h, "recheck")
        /\ UNCHANGED <<todo, held>>
  /\ UNCHANGED <<cache, poisoned>>

\* A mutant of Recheck: the second look is left out.
RecheckNothing(h) ==
  /\ pc[h] = "recheck"
  /\ Goto(h, "load")
  /\ UNCHANGED <<todo, held, cache, loadLock, poisoned>>

\* The look under the load lock.
Recheck(h) ==
  /\ pc[h] = "recheck"
  /\ \/ Upgrades(Cur(h)) /\ Share(h) /\ Unlock(h)
     \/ ~Upgrades(Cur(h)) /\ Goto(h, "load") /\ UNCHANGED <<todo, held, loadLock>>
  /\ UNCHANGED <<cache, poisoned>>

Load(h) ==
  /\ pc[h] = "load"
  /\ \E i \in Ids :
       /\ <<Cur(h), i>> \notin Live /\ <<Cur(h), i>> # cache[Cur(h)]
       /\ held' = [held EXCEPT ![h] = @ \union {<<Cur(h), i>>}]
  /\ Goto(h, "insert")
  /\ UNCHANGED <<todo, cache, loadLock, poisoned>>

\* A mutant of LoadFails: the load is tried again, without end.
LoadFailsRetries(h) ==
  /\ pc[h] = "load"
  /\ Goto(h, "recheck")
  /\ UNCHANGED <<todo, held, cache, loadLock, poisoned>>

LoadFails(h) ==
  /\ pc[h] = "load"
  /\ Fail(h) /\ Unlock(h)
  /\ UNCHANGED <<cache, poisoned>>

LoadPanics(h) ==
  /\ pc[h] = "load"
  /\ Fail(h) /\ Unlock(h)
  /\ poisoned' = poisoned \union {Cur(h)}
  /\ UNCHANGED cache

Insert(h) ==
  /\ pc[h] = "insert"
  /\ \E a \in held[h] :
       /\ a[1] = Cur(h)
       /\ cache' = [cache EXCEPT ![Cur(h)] = a]
  /\ Unlock(h)
  /\ todo' = [todo EXCEPT ![h] = Tail(@)]
  /\ Goto(h, "check")
  /\ UNCHANGED <<held, poisoned>>

\* try_with_options returns the embedder.
Finish(h) ==
  /\ pc[h] = "check" /\ todo[h] = <<>>
  /\ Goto(h, "ready")
  /\ UNCHANGED <<todo, held, cache, loadLock, poisoned>>

Drop(h) ==
  /\ pc[h] = "ready"
  /\ held' = [held EXCEPT ![h] = {}]
  /\ Goto(h, "idle")
  /\ UNCHANGED <<todo, cache, loadLock, poisoned>>

Step(h) ==
  \/ Check(h) \/ Recheck(h) \/ Insert(h) \/ Finish(h)
  \/ Load(h) \/ LoadFails(h) \/ LoadPanics(h)

Next == \E h \in Hosts : Construct(h) \/ Refuse(h) \/ Lock(h) \/ Step(h) \/ Drop(h)

Spec == Init /\ [][Next]_vars

\* A thread runs on, a load ends one way or another, and a thread that waits
\* for a lock that is freed again and again gets it.
Fairness == \A h \in Hosts : WF_vars(Step(h)) /\ SF_vars(Lock(h))

FairSpec == Spec /\ Fairness

-----------------------------------------------------------------------------
Filled(h) == {a[1] : a \in held[h]}
Pending(h) == {todo[h][i] : i \in DOMAIN todo[h]}

\* The type of the state, with what a host owns: nothing when it is idle, and
\* nothing for a slot it has still to fill, save the copy it is about to insert
\* (embedder/construct.rs).
TypeOK ==
  /\ pc \in [Hosts -> {"idle", "check", "lock", "recheck", "load", "insert", "ready"}]
  /\ todo \in [Hosts -> Seq(Models)]
  /\ held \in [Hosts -> SUBSET Alloc]
  /\ cache \in [Models -> Alloc \union {None}]
  /\ loadLock \in [Models -> Hosts \union {None}]
  /\ poisoned \subseteq Models
  /\ \A h \in Hosts :
       /\ pc[h] \in {"lock", "recheck", "load", "insert"} => todo[h] # <<>>
       /\ pc[h] = "idle" => held[h] = {}
       /\ pc[h] # "insert" => Filled(h) \intersect Pending(h) = {}

\* A model is in memory at most once, and nobody loads it while it is: racing
\* constructions share one copy (load_cached, "at most once per live model").
OneLiveCopy ==
  /\ \A a, b \in Live : a[1] = b[1] => a = b
  /\ \A h \in Hosts : pc[h] = "load" =>
       /\ \A a \in Live : a[1] # Cur(h)
       /\ \A g \in Hosts \ {h} : pc[g] \in {"load", "insert"} => Cur(g) # Cur(h)

\* Every construction returns, whatever loads fail or panic around it: no lock
\* stays held behind an error (load_cached's guard, construct.rs).
ConstructionsReturn ==
  \A h \in Hosts : pc[h] = "check" ~> pc[h] \in {"idle", "ready"}

=============================================================================
