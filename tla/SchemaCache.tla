---------------------------- MODULE SchemaCache ----------------------------
(***************************************************************************)
(* The schema cache of the query executor (crate qql-runtime), for one     *)
(* collection: calls of every kind that read it, refill it or make it      *)
(* obsolete, interleaved at every await, with requests that fail, whose    *)
(* answer is lost or that reach the server after the call timed out, and   *)
(* with callers that close the executor meanwhile.                         *)
(*                                                                         *)
(* A schema is the set of the collection's dense vectors and the number of *)
(* changes the server had served when it was read; the schema without a    *)
(* vector stands for "no collection" on the server and for "no entry" in   *)
(* the cache and in a call.                                                *)
(***************************************************************************)
EXTENDS Naturals

CONSTANTS
    Calls,      \* tasks that call the executor, one call after another
    Closers,    \* callers of close
    Names,      \* names of dense vectors
    Default,    \* the name an automatically created collection gets
    Kinds,      \* the operations each task chooses from
    Chunks,     \* chunks of an upsert_many
    Embedder,   \* whether the executor has an embedder
    MaxFaults,  \* bound on failed, lost and timed-out requests
    MaxVersion  \* bound on the schema changes: no call begins another at it

Operations == {"query", "unnamed", "embed", "prepare", "many", "alter", "create", "drop"}

ASSUME CacheAssumption ==
    /\ Default \in Names
    /\ Kinds \in [Calls -> SUBSET Operations]
    /\ Chunks \in Nat \ {0}
    /\ Embedder \in BOOLEAN
    /\ MaxFaults \in Nat /\ MaxVersion \in Nat

VARIABLES
    server,     \* the schema the server has
    cache,      \* schema_cache: the entry of the collection
    pc,         \* where each call is
    kind,       \* what it does; a "many" becomes a "chunk" once prepared
    held,       \* the schema it goes by, or the one its DDL made
    tmpl,       \* PreparedStatement::upsert_schema of the task's template
    kept,       \* whether that is a statement the caller keeps between calls
    left,       \* chunks the call still has to send
    closed,     \* Executor::closed
    locked,     \* Executor::close_lock is held
    cl,         \* where each close is
    closes,     \* times the backend was closed
    faults,     \* faults so far
    returned,   \* history: newest schema whose DDL statement returned
    since,      \* history: returned, when the call began
    asOf,       \* history: returned, when the preparation of the template began
    overlap     \* history: a change a later insertion or no invalidation follows

callVars == <<pc, kind, held, tmpl, kept, left, since, asOf>>
closeVars == <<closed, locked, cl, closes>>
vars == <<server, cache, callVars, closeVars, faults, returned, overlap>>

None == [names |-> {}, ver |-> 0]
Missing(s) == s.names = {}
Schemas == [names : SUBSET Names, ver : Nat]

DDL == {"alter", "create", "drop"}
Awaits == {"peek", "exists", "lookup", "fetch", "insert",
           "ensure", "make", "send", "invalidate"}

TypeOK ==
    /\ server \in Schemas /\ cache \in Schemas
    /\ pc \in [Calls -> Awaits \cup {"idle", "next", "adrift"}]
    /\ kind \in [Calls -> Operations \cup {"none", "chunk"}]
    /\ held \in [Calls -> Schemas] /\ tmpl \in [Calls -> Schemas]
    /\ kept \in [Calls -> BOOLEAN] /\ left \in [Calls -> 0..Chunks]
    /\ closed \in BOOLEAN /\ locked \in BOOLEAN
    /\ cl \in [Closers -> {"idle", "clear", "backend", "done"}]
    /\ closes \in Nat /\ faults \in 0..MaxFaults
    /\ returned \in Nat /\ since \in [Calls -> Nat] /\ asOf \in [Calls -> Nat]
    /\ overlap \in BOOLEAN

Init ==
    /\ server \in [names : SUBSET Names, ver : {0}]
    /\ cache = None
    /\ pc = [c \in Calls |-> "idle"] /\ kind = [c \in Calls |-> "none"]
    /\ held = [c \in Calls |-> None] /\ tmpl = [c \in Calls |-> None]
    /\ kept = [c \in Calls |-> FALSE] /\ left = [c \in Calls |-> Chunks]
    /\ closed = FALSE /\ locked = FALSE
    /\ cl = [k \in Closers |-> "idle"] /\ closes = 0
    /\ faults = 0 /\ returned = 0
    /\ since = [c \in Calls |-> 0] /\ asOf = [c \in Calls |-> 0] /\ overlap = FALSE

-----------------------------------------------------------------------------
(* Helpers: how a call moves on.                                           *)

Goto(c, place) == pc' = [pc EXCEPT ![c] = place]
KeepTemplate == UNCHANGED <<tmpl, kept, asOf>>
Keep == UNCHANGED <<kind, held, left, since>> /\ KeepTemplate
Fault == faults < MaxFaults /\ faults' = faults + 1

Quiet == UNCHANGED <<server, closeVars, returned, overlap>>

\* The first await of each operation.
First(k) ==
    CASE k \in {"query", "alter"} -> "lookup"
      [] k \in {"create", "drop"} -> "send"
      [] OTHER -> "peek"

\* No schema: an unnamed vector is sent as it is, a template goes without.
GoesWithout(k) == k \in {"unnamed", "prepare", "many", "chunk"}

\* The call is over and drops what it held.
Leave(c) ==
    /\ Goto(c, "idle")
    /\ kind' = [kind EXCEPT ![c] = "none"]
    /\ held' = [held EXCEPT ![c] = None]
    /\ left' = [left EXCEPT ![c] = Chunks]
    /\ since' = [since EXCEPT ![c] = 0]

\* It returns, answer or error; a template of its own goes with it.
Return(c) ==
    /\ Leave(c)
    /\ tmpl' = [tmpl EXCEPT ![c] = IF kept[c] THEN tmpl[c] ELSE None]
    /\ asOf' = [asOf EXCEPT ![c] = IF kept[c] THEN asOf[c] ELSE 0]
    /\ UNCHANGED kept

\* Going by schema s. A preparation keeps it in the template instead, which
\* prepare returns to the caller.
Use(c, s) ==
    CASE kind[c] = "prepare" ->
           /\ Leave(c)
           /\ tmpl' = [tmpl EXCEPT ![c] = s]
           /\ kept' = [kept EXCEPT ![c] = TRUE]
           /\ UNCHANGED asOf
      [] kind[c] = "many" ->
           /\ Goto(c, "next")
           /\ kind' = [kind EXCEPT ![c] = "chunk"]
           /\ tmpl' = [tmpl EXCEPT ![c] = s]
           /\ UNCHANGED <<held, kept, left, since, asOf>>
      [] OTHER ->
           /\ Goto(c, IF kind[c] = "embed" THEN "ensure" ELSE "send")
           /\ held' = [held EXCEPT ![c] = s]
           /\ UNCHANGED <<kind, left, since>> /\ KeepTemplate

-----------------------------------------------------------------------------
(* A call, up to its request.                                              *)

\* A task keeps one statement: its next template takes the place of it.
Begin(c, k) ==
    /\ pc[c] = "idle" /\ ~closed
    /\ k \in DDL \cup {"embed"} => server.ver < MaxVersion
    /\ Goto(c, First(k))
    /\ kind' = [kind EXCEPT ![c] = k]
    /\ since' = [since EXCEPT ![c] = returned]
    /\ IF k \in {"prepare", "many"}
       THEN /\ tmpl' = [tmpl EXCEPT ![c] = None] /\ kept' = [kept EXCEPT ![c] = FALSE]
            /\ asOf' = [asOf EXCEPT ![c] = returned]
       ELSE KeepTemplate
    /\ UNCHANGED <<server, cache, held, left, closeVars, faults, returned, overlap>>

\* execute_prepared, any time after the preparation and any number of times: one
\* chunk, by the template as it is.
Execute(c) ==
    /\ pc[c] = "idle" /\ ~closed /\ kept[c]
    /\ Goto(c, "next")
    /\ kind' = [kind EXCEPT ![c] = "chunk"]
    /\ left' = [left EXCEPT ![c] = 1]
    /\ since' = [since EXCEPT ![c] = returned]
    /\ KeepTemplate
    /\ UNCHANGED <<server, cache, held, closeVars, faults, returned, overlap>>

\* The best-effort look into the cache of an upsert or a preparation.
Peek(c) ==
    /\ pc[c] = "peek"
    /\ IF Missing(cache)
       THEN Goto(c, "exists") /\ Keep
       ELSE Use(c, cache)
    /\ Quiet /\ UNCHANGED <<cache, faults>>

\* Without an entry the server is asked whether the collection exists.
Exists(c) ==
    /\ pc[c] = "exists"
    /\ \/ /\ IF Missing(server)
             THEN Use(c, None)
             ELSE Goto(c, "lookup") /\ Keep
          /\ UNCHANGED faults
       \/ /\ Fault
          /\ IF GoesWithout(kind[c]) THEN Use(c, None) ELSE Return(c)
    /\ Quiet /\ UNCHANGED cache

Lookup(c) ==
    /\ pc[c] = "lookup"
    /\ IF Missing(cache)
       THEN Goto(c, "fetch") /\ Keep
       ELSE Use(c, cache)
    /\ Quiet /\ UNCHANGED <<cache, faults>>

\* The server answers outside the lock of the cache.
Fetch(c) ==
    /\ pc[c] = "fetch"
    /\ \/ /\ ~Missing(server)
          /\ held' = [held EXCEPT ![c] = server]
          /\ Goto(c, "insert")
          /\ UNCHANGED <<kind, left, since, faults>> /\ KeepTemplate
       \/ /\ IF Missing(server) THEN UNCHANGED faults ELSE Fault
          /\ IF GoesWithout(kind[c]) THEN Use(c, None) ELSE Return(c)
    /\ Quiet /\ UNCHANGED cache

\* What the server answered is inserted, whatever happened in between.
Insert(c) ==
    /\ pc[c] = "insert"
    /\ cache' = held[c]
    /\ Use(c, held[c])
    /\ Quiet /\ UNCHANGED faults

-----------------------------------------------------------------------------
(* The server serves a change of the schema.                               *)

\* Some other call holds a schema it fetched and has not inserted yet.
Holding(c) == \E d \in Calls \ {c} : pc[d] = "insert"

Change(names) == server' = [names |-> names, ver |-> server.ver + 1]

\* The changes the statement of call c can make on the server.
Changes(c) ==
    CASE kind[c] = "create" /\ Missing(server) -> SUBSET Names \ {{}}
      [] kind[c] = "drop" /\ ~Missing(server) -> {{}}
      [] kind[c] = "alter" /\ ~Missing(server) -> {server.names}
      [] OTHER -> {}

\* ensure_collection_for_upsert: its own probe, never the cache.
Ensure(c) ==
    /\ pc[c] = "ensure"
    /\ \/ /\ Goto(c, IF Missing(server) THEN "make" ELSE "send")
          /\ Keep /\ UNCHANGED faults
       \/ Fault /\ Return(c)
    /\ Quiet /\ UNCHANGED cache

AutoNames(c) == {{n} : n \in IF Missing(held[c]) THEN {Default} ELSE held[c].names}

\* The collection is created behind the cache: no invalidation follows.
Make(c) ==
    /\ pc[c] = "make"
    /\ \/ /\ Missing(server)
          /\ \E names \in AutoNames(c) : Change(names)
          /\ overlap' = (overlap \/ Holding(c))
          /\ \/ /\ Goto(c, "send")
                /\ Keep /\ UNCHANGED faults
             \/ Return(c) /\ Fault
       \/ /\ ~Missing(server)
          /\ Return(c)
          /\ UNCHANGED <<server, overlap, faults>>
    /\ UNCHANGED <<cache, closeVars, returned>>

\* DDL the server applies, its answer delivered or lost.
ServeDdl(c) ==
    /\ pc[c] = "send" /\ kind[c] \in DDL
    /\ \E names \in Changes(c) : Change(names)
    /\ \/ /\ Goto(c, "invalidate")
          /\ held' = [held EXCEPT ![c] = server']
          /\ overlap' = (overlap \/ Holding(c))
          /\ UNCHANGED <<kind, left, since, faults>> /\ KeepTemplate
       \/ /\ Return(c) /\ Fault
          /\ overlap' = TRUE
    /\ UNCHANGED <<cache, closeVars, returned>>

\* The statement does not fit the schema it goes by (unknown or ambiguous
\* vector, wrong size), or the server refuses it.
Reject(c) ==
    /\ pc[c] \in {"ensure", "send"}
    /\ \/ Return(c)
       \/ kind[c] = "chunk" /\ Goto(c, "next") /\ Keep
    /\ Quiet /\ UNCHANGED <<cache, faults>>

\* Mutants: one kind of DDL is not among those that invalidate.
InvalidateNotAltered(c) ==
    /\ pc[c] = "invalidate"
    /\ cache' = IF kind[c] = "alter" THEN cache ELSE None
    /\ returned' = IF held[c].ver > returned THEN held[c].ver ELSE returned
    /\ Return(c)
    /\ UNCHANGED <<server, closeVars, faults, overlap>>

InvalidateNotDropped(c) ==
    /\ pc[c] = "invalidate"
    /\ cache' = IF kind[c] = "drop" THEN cache ELSE None
    /\ returned' = IF held[c].ver > returned THEN held[c].ver ELSE returned
    /\ Return(c)
    /\ UNCHANGED <<server, closeVars, faults, overlap>>

\* dispatch_raw, after the answer: the entry is removed and the call returns.
Invalidate(c) ==
    /\ pc[c] = "invalidate"
    /\ cache' = None
    /\ returned' = IF held[c].ver > returned THEN held[c].ver ELSE returned
    /\ Return(c)
    /\ UNCHANGED <<server, closeVars, faults, overlap>>

-----------------------------------------------------------------------------
(* Reads and upserts, chunk by chunk where there is a template.            *)

Serve(c) ==
    /\ pc[c] = "send" /\ kind[c] \notin DDL
    /\ IF kind[c] = "chunk" THEN Goto(c, "next") /\ Keep ELSE Return(c)
    /\ Quiet /\ UNCHANGED <<cache, faults>>

\* The chunk is a statement of its own, which asks once more whether the
\* executor is open, instead of going by the template's schema.
SlowPath(c) == Embedder \/ Missing(tmpl[c])

\* The call goes by its template.
ByTemplate(c) == kind[c] = "chunk" /\ ~SlowPath(c)

\* Mutant: the same chunk is sent again.
NextChunkAgain(c) ==
    /\ pc[c] = "next"
    /\ \/ left[c] = 0 /\ Return(c)
       \/ /\ left[c] > 0
          /\ Goto(c, IF SlowPath(c) THEN "peek" ELSE "send")
          /\ held' = [held EXCEPT ![c] = IF SlowPath(c) THEN None ELSE tmpl[c]]
          /\ UNCHANGED <<left, kind, since>> /\ KeepTemplate
    /\ Quiet /\ UNCHANGED <<cache, faults>>

\* After the last chunk the call is done. A refused one ends the call under
\* OnError::Stop; under Continue the ones behind it are refused as well.
NextChunk(c) ==
    /\ pc[c] = "next"
    /\ \/ /\ left[c] = 0 \/ (SlowPath(c) /\ closed)
          /\ Return(c)
       \/ /\ left[c] > 0 /\ (SlowPath(c) => ~closed)
          /\ left' = [left EXCEPT ![c] = left[c] - 1]
          /\ Goto(c, IF SlowPath(c) THEN "peek" ELSE "send")
          /\ held' = [held EXCEPT ![c] = IF SlowPath(c) THEN None ELSE tmpl[c]]
          /\ UNCHANGED <<kind, since>> /\ KeepTemplate
    /\ Quiet /\ UNCHANGED <<cache, faults>>

\* The request timeout drops the call where it waits. Preparation has none.
\* A request that changes the schema may still be on its way: "adrift".
Timeout(c) ==
    /\ pc[c] \in Awaits /\ kind[c] \notin {"prepare", "many"}
    /\ Fault
    /\ \/ /\ pc[c] = "make" \/ (pc[c] = "send" /\ kind[c] \in DDL)
          /\ Goto(c, "adrift") /\ Keep
       \/ kind[c] = "chunk" /\ Goto(c, "next") /\ Keep
       \/ Return(c)
    /\ overlap' = (overlap \/ pc[c] = "invalidate")
    /\ UNCHANGED <<server, cache, closeVars, returned>>

\* A request that outlived its call.
Land(c) ==
    /\ pc[c] = "adrift"
    /\ IF kind[c] = "embed"
       THEN Missing(server) /\ \E names \in AutoNames(c) : Change(names)
       ELSE \E names \in Changes(c) : Change(names)
    /\ overlap' = TRUE
    /\ Return(c)
    /\ UNCHANGED <<cache, closeVars, faults, returned>>

-----------------------------------------------------------------------------
(* Closing the executor.                                                   *)

\* Mutant: no lock orders a second close behind the first.
TakeNoLock(k) ==
    /\ cl[k] = "idle"
    /\ closed' = TRUE
    /\ locked' = ~closed
    /\ cl' = [cl EXCEPT ![k] = IF closed THEN "done" ELSE "clear"]
    /\ UNCHANGED <<server, cache, callVars, closes, faults, returned, overlap>>

\* A call of close that gets the lock; the flag tells it whether to go on.
TakeLock(k) ==
    /\ cl[k] = "idle" /\ ~locked
    /\ closed' = TRUE
    /\ locked' = ~closed
    /\ cl' = [cl EXCEPT ![k] = IF closed THEN "done" ELSE "clear"]
    /\ UNCHANGED <<server, cache, callVars, closes, faults, returned, overlap>>

Clear(k) ==
    /\ cl[k] = "clear"
    /\ cache' = None
    /\ cl' = [cl EXCEPT ![k] = "backend"]
    /\ UNCHANGED <<server, callVars, closed, locked, closes,
                   faults, returned, overlap>>

CloseBackend(k) ==
    /\ cl[k] = "backend"
    /\ closes' = closes + 1
    /\ locked' = FALSE
    /\ cl' = [cl EXCEPT ![k] = "done"]
    /\ UNCHANGED <<server, cache, callVars, closed, faults, returned, overlap>>

-----------------------------------------------------------------------------
Step(c) ==
    \/ Peek(c) \/ Exists(c) \/ Lookup(c) \/ Fetch(c) \/ Insert(c)
    \/ Ensure(c) \/ Make(c) \/ ServeDdl(c) \/ Reject(c) \/ Invalidate(c)
    \/ Serve(c) \/ NextChunk(c)

Over ==
    /\ \A c \in Calls : pc[c] \in {"idle", "adrift"}
    /\ ~locked
    /\ UNCHANGED vars

Next ==
    \/ \E c \in Calls : \E k \in Kinds[c] : Begin(c, k)
    \/ \E c \in Calls : Execute(c) \/ Step(c) \/ Timeout(c) \/ Land(c)
    \/ \E k \in Closers : TakeLock(k) \/ Clear(k) \/ CloseBackend(k)
    \/ Over

Spec == Init /\ [][Next]_vars

\* The scheduler runs every task; callers and the network owe nothing.
FairSpec ==
    /\ Spec
    /\ \A c \in Calls : WF_vars(Step(c))

-----------------------------------------------------------------------------
(* Properties.                                                             *)

\* An entry differs from the server's schema only while the DDL that changed
\* it is about to invalidate it, unless a change overlapped a fetch or its
\* answer was lost: creating the collection behind the cache is safe.
Fresh ==
    overlap \/ Missing(cache) \/ cache = server \/ \E c \in Calls : pc[c] = "invalidate"

\* With the same exception, a call goes by a schema no older than any DDL
\* statement that had returned before the call began, or, where it goes by a
\* template, before the preparation of that template began: a prepared upsert
\* may be executed by a schema that DDL returned since has replaced.
Recent(c) ==
    /\ Missing(held[c]) \/ held[c].ver >= IF ByTemplate(c) THEN asOf[c] ELSE since[c]
    /\ Missing(tmpl[c]) \/ tmpl[c].ver >= asOf[c]

ReadYourDdl == overlap \/ \A c \in Calls : Recent(c)

\* The same of calls that fetch or look up their schema, without the exception,
\* which the source's comments do not make:
\* "Invalidated after DDL".
AlwaysReadsDdl ==
    \A c \in Calls : ByTemplate(c) \/ Missing(held[c]) \/ held[c].ver >= since[c]

\* When any close has returned the executor is closed for good and the
\* backend has been closed, once.
CloseIsFinal ==
    /\ closes <= 1
    /\ \A k \in Closers : cl[k] = "done" => closed /\ closes = 1

\* Every call returns, whatever is lost or fails.
CallsReturn == \A c \in Calls : pc[c] # "idle" ~> pc[c] \in {"idle", "adrift"}
=============================================================================
