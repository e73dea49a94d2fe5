# TLA+ models of QQL

QQL is a query language for the Qdrant vector database: a parser and planner
(`qql-core`, `qql-plan`, `qql-protocol`), an executor over REST, gRPC or an
embedded engine (`qql-runtime`, `qql-edge`), a command line with `dump` and
`migrate` (`qql-cli`), and bindings for Python, Node and WASM. Much of it is
pure translation. This directory models the parts that keep state while
something else happens: a crash-safe migration and a dump, a script executor
that groups, loses and re-sends requests, a schema cache read by concurrent
calls, an embedded backend whose shards are opened and dropped by concurrent
calls, a process-wide cache of embedding models, and the preparation of a
statement against an embedding server. TLC checks small instances of them;
TLAPS proves the central theorems for every value of the constants.

Paths below are relative to the repository; `migrate/x.rs` stands for
`crates/qql-cli/src/migrate/x.rs`, `dump/x.rs` for `crates/qql-cli/src/dump/x.rs`,
`executor/x.rs` for `crates/qql-runtime/src/executor/x.rs`, `backend/x.rs` for
`crates/qql-edge/src/backend/x.rs`, `embedder/x.rs` for
`crates/qql-edge/src/embedder/x.rs`, `qql-embed/x.rs` for
`crates/qql-embed/src/x.rs`. `PROJECT.json` ties every definition to the lines
it stands for, and lists runs, mutants, findings, hazards and theorems.

    tlc -config MCMigrate_slow.cfg MCMigrate.tla        # a run
    tlapm MigrateProofs.tla                             # a proof module

## 1. Inventory

### Components with state worth modelling

| component | state | operations | calls, messages, shared state |
|---|---|---|---|
| **Migration** `migrate/*.rs` | checkpoint file (phase, cursor, counters), source, target with its optimizer threshold and shard keys, alias; in memory: checkpoint copy, `created_keys`, page-window channel, windows of upserts | a run: checks, discovery, schema, ingest, optimizer restore, verify, cutover, drop; re-runs with `--restart`, `--resume`, `--recreate`, `--cutover`, ... | producer and consumer tasks in one `select!`, joined by a bounded channel; up to `--workers` upserts in flight; every call goes to a server that may fail or lose the answer |
| **Scroll stream** `dump/mod.rs`, `ScrollPages` | cursor, whether it is a last-id fallback, done | `new`, `resume`, `next` | used by dump and migrate |
| **Dump** `dump/*.rs` | temporary file, output, stream of the current shard | check, create, header, pages, footer, rename or copy, clean up | the source is written meanwhile; errors and kills at any step |
| **Script execution** `executor/batch.rs`, `dispatch.rs`, `qql-plan/src/batch.rs` | position in the script, `BatchGrouper` (pending operations, their key), results | barrier, prepare, plan, push, flush, individual retry, timeout | preparation calls the backend, so it must not overtake pending writes |
| **Schema cache** `executor/ddl/schema.rs`, `prepared.rs`, `mod.rs` | `schema_cache`, `closed`, `close_lock`; the schema inside each prepared upsert | fetch and insert, invalidate on DDL, auto-create, `close`, prepare, execute, `upsert_many` | concurrent statements of one `Executor` |
| **Edge backend** `backend/mod.rs`, `ops.rs` | map of open shards, map of opening mutexes, collection directories | open, create, delete, close | concurrent calls; construction runs on the blocking pool and outlives a cancelled call |
| **Model cache** `embedder/cache.rs`, `construct.rs` | weak entries per model, per-key load locks | load, share, drop | constructors on several threads; loads fail or panic |
| **Embedding resolution** `qql-embed/*.rs`, `executor/dml/*.rs`, `embedder_http.rs` | the statement being rewritten, the jobs of a query, the answer of a batch | configure from the schema, collect, request, apply, auto-create | the embedding server answers in its own order; other clients change the collection |
| **Shared Python runtime** `pyqql-common` | one runtime slot keyed by process id | get, reset after fork | fork |
| **Snapshots** `qql-runtime/src/snapshots.rs` | partial file | download with length check | one sequential actor |

What makes each of the modelled ones correct:

- *Migration.* A stored cursor is never ahead of the target; the alias is only
  ever swapped to a complete target; no wanted point is lost by any sequence of
  runs and crashes; a checkpoint only moves forward; the bulk indexing
  threshold does not survive; the pipeline cannot stall; every checkpoint leads
  to the end but for two, which the code cannot go on from (section 11).
- *Scroll stream.* No point between two cursors is left out, and the stream
  ends only when none is left.
- *Dump.* A complete script has every point that stayed where it was, once,
  under its shard key; a run that reports success has put such a script at the
  output, whatever earlier runs left; a run ends however the collection is
  written to.
- *Script execution.* One answer per operation in script order; a statement is
  prepared only behind the writes before it; a rejected statement does not take
  earlier ones with it; nothing conditional is sent twice; a script of
  operations by id ends as if run one by one.
- *Schema cache.* A statement that starts after a DDL has returned does not use
  a schema from before it, unless it executes a template that was prepared
  before; a close is final and closes the backend once.
- *Edge backend.* One construction at a time; the map agrees with the disk;
  answers are those of an atomic collection; every call returns.
- *Model cache.* A model is in memory at most once, and every construction
  returns.
- *Embedding resolution.* Each text is embedded by the model and for the target
  it was written with and its vector lands where it stood; nothing of the
  user's is lost; inferred targets exist and have the right kind.

### Components without such state

Grammar, lexer, parser, formatter and parameters (`qql-core`); planner and
protocol projection (`qql-plan`, `qql-protocol`); foreign-syntax decoders
(`qql-convert`): pure functions on trees and text, for which the repository's
corpus and property tests are the better tool. Transports: request/response
I/O, represented by calls that succeed, fail, or are served with a lost answer
(the HTTP embedder's handling of an answer is in `EmbedBatch`). CLI shell,
language bindings, WASM, conformance suite and grammar generator: wrappers and
tools. All of them are listed in `PROJECT.json` with the reason.

## 2. Plan

| step | modules | status |
|---|---|---|
| 1 | `ScrollPages`, `Migrate`, abstract `MigrateContract`, `MigrateInv`, proofs | done |
| 2 | `ScriptExec`, abstract `ScriptContract`, proofs | done |
| 3 | `EdgeShards`, abstract `EdgeContract`, proofs | done |
| 4 | `SchemaCache`, proofs | done |
| 5 | `Dump` on top of `ScrollPages`, proofs | done |
| 6 | `ModelCache`, proofs | done |
| 7 | `EmbedBatch`, `UpsertEmbed`, `QueryEmbed`, composed by `Prepare`; proofs of both halves | done |
| 8 | `RetryCircuit` (`migrate/retry.rs`): attempt counts and the circuit the workers share | planned |
| 9 | shared Python runtime; a cancelled DROP of the edge backend | planned |

A module composes others by EXTENDS (`Dump` and `Migrate` use `ScrollPages`,
`Prepare` uses `UpsertEmbed` and `QueryEmbed`, both on `EmbedBatch`) or, for a
contract, by INSTANCE. No module has a `RECURSIVE` operator: a recursion is a
recursive function, over the natural numbers or over the queries of a statement;
parameters are CONSTANTS with named assumptions (`ScrollAssumption`,
`MigrateAssumption`, `ScriptAssumption`, `EdgeAssumption`, `CacheAssumption`,
`DumpAssumption`, `ModelCacheAssumption`, `UpsertAssumption`,
`QueryAssumption`), and there is one
action per operation. State counts below are distinct states.

## 3. Migration

### Modules

- `ScrollPages`: the stream, as pure operators. `Probe` is the scroll with
  `limit = batch_size + 1` from an inclusive offset; `Page` drops the repeated
  point on a fallback cursor (`drop_resumed_point`); `Advance` is `next`.
- `Migrate`: the system. `pc` is where the process is in `migrate_collection`;
  `src`, `tgt`, `alias` and `cp` survive it. A step is at most one call or one
  save, so that a crash can come between any two.

  | code | actions |
  |---|---|
  | `migrate_collection` up to the phases, `load_or_init`, `compatible` | `StartFresh`, `StartResumed`, `StartRefused`, `FailStart` |
  | `prepare_target` and the first save | `DropTarget`, `CreateTarget`, `KeepTarget`, `CreateShardKeys`, `SaveIngest` |
  | producer of `stream_points`, `fill_window` | `FetchPage`, `SendWindow`, `CloseChannel` |
  | consumer, `upsert_window`, `split_by_shard`, `upsert_groups`, `upsert_one` | `ReceiveWindow`, `RejectWindow`, `EnsureShardKey`, `IssueChunk`, `UpsertDone`, `UpsertRejected`, `FailWindow`, `CommitWindow` |
  | end of the ingest, restore, verify, cutover, drop, done | `FinishIngest`, `Decide`, `RestoreOptimizers`, `SaveVerify`, `Verify`, `CountMismatch`, `CutoverAlias`, `DropSource`, `SaveDone`, `RemoveCheckpoint` |
  | what goes wrong | `Crash`, `FailStep` (with the call's effect or without it), `InterruptIngest` (failed scroll, Ctrl+C), `LoseWindowSave`, `LoseIngestSave`, `UpsertLost` (served or not) |
  | applications | `WriteSource` |

  Points are `1..NumPoints` in scroll order; `Class` says which shard key a
  point routes to, or why it is skipped or rejected. An upsert of a chunk is a
  set of points that one answer covers.
- `MigrateContract`: copy, empty, swap, drop; each only when it is safe.
- `MigrateInv`: the inductive invariant. `MCMigrate`: the instances.
- `ScrollPagesProofs`, `MigrateProofs`: the theorems.

### Runs

| run | states | what it shows |
|---|---|---|
| `slow` | 603,744 | `--no-fast-bulk` with `--shard-key-field` onto a new or an existing target that holds a foreign point: two shard keys, a point without key, one whose payload field collides, an unroutable one, and a key and a point that arrive while the migration runs; re-runs with `--restart --recreate`, `--resume`, `--no-verify`, without `--cutover`; four faults. `CursorCovered`, `CountersCover`, `StartingKeysExist`, `NothingLost`, `CheckpointForward`, refinement `Migrates` |
| `fast` | 471,474 | the default fast bulk, mixed with restarts and resumes under `--no-fast-bulk`, onto a new target or one that holds two of the source's points, with a point written on either side of the source's meanwhile; three faults: `TypeOK`, `CutoverComplete`, `RestoredBeforeVerify`, refinement `Migrates`. Here the ingest may be cut off and the next run start at verify; it is the exact count comparison that saves the cutover. `Completes`: under fairness and an operator who re-runs the command, the migration finishes or is at one of the two dead ends the code has: a checkpoint at verify beside counts that differ (`Uncountable`: a fast-bulk ingest that failed, a source written to), a source dropped without a stored `done` (`SourceGone`) |
| `interrupt` | violation | an interrupted fast-bulk ingest is stored as phase verify: the re-run never resumes from the cursor, against `convert-migration.md:139` |

`StartingKeysExist` is the positive half of an observation in section 11: a run
goes by its own list of keys, and the property says that this can only be wrong
for keys no point had when the migration began.

*Bounds.* `BatchSize = 1` makes the probe two points, the size at which the
inclusive repeat and the end of the stream are most easily wrong; the proofs
cover every size. Five to seven points with two workers give three or four windows
in consumer, channel and producer, so that every position of a stored cursor
relative to an unwritten point occurs. In `fast` one worker and windows of one
page fill the channel (two windows) with one in the consumer's hands and one the
producer cannot send. Four faults allow two crashed
runs each with a failed call; with three, `fast` still has an interrupted ingest, a
failed verification or swap and a crash in a later run.

*Fairness* (`FairSpec`, only for `fast`). The sequence of steps, the producer
and the consumer are each weakly fair: tokio polls a task that can go on, and
`select!` polls both branches. `Rerun` is the operator, who after runs that did
not succeed at last gives a command that is not refused, if there is one: the
command given again as it was is never refused for its options. Nothing assumes that a call succeeds:
failures are actions without fairness, bounded by `MaxFaults`, so they end but
may come anywhere.

`Completes` is as strong as the code allows. Under the default fast bulk a failed
or interrupted ingest is restored and stored as phase verify, and every re-run
ends in a count mismatch until `--restart`; with `--drop-source-after-cutover` a
crash between the drop and the save of `done` leaves a checkpoint every later run
refuses. Without `Uncountable` or without `SourceGone` in `DeadEnd`, TLC refutes
`Completes`; the run shows that no other checkpoint, phase or position of the
pipeline is one the migration cannot go on from.

### Proofs

For all options, points, batch sizes and workers: `Spec => []TypeOK`
(`TypeCorrect`), `[]CursorCovered` (`CursorNeverAhead`), `CheckpointForward`
(`CheckpointsMoveForward`), `[]CountersCover` (`CountersKeepUp`) and
`[]StartingKeysExist` (`StartingKeysAreCreated`). For `BulkIsUndone`:
`[]RestoredBeforeVerify` (`OptimizersAreRestored`). For `BulkIsVerified` (no
option record is fast, or every fast one verifies and an existing target holds
only points of the source): `[]CutoverComplete` (`CutoverIsComplete`),
`[]NothingLost` (`NoPointLost`) and `Spec => Migrates` (`ImplementsContract`).
The command's defaults, on a new target, satisfy `BulkIsVerified`. Assumptions:
`ScrollAssumption`, `MigrateAssumption`, and the two conditions where they are
named.

`CursorCovered` is not inductive: the cursor that is stored next comes from a
window that was fetched long ago. `Inv` adds

- `ControlInv`: which phase, checkpoint and channel go with which step;
- `PipelineInv`: the windows of consumer, channel and producer join without a
  gap: each holds every starting point between its predecessor's cursor and its
  own. `AdvanceCovers` (a theorem about `ScrollPages` alone) is what a
  `FetchPage` step needs;
- `SentInv`: a wanted point of the consumer's window is in the target or in a
  group still to be sent, unless the window has failed;
- `SourceInv`, `MemCovered`: the source is whole while the run reads it, and
  the in-memory cursor is covered as well as the stored one.

`ProgressInv` is about the checkpoint. `CheckpointMoves` sorts every step by
what it does to the checkpoint in memory and on disk: it rests, the run begins,
resumes or ends, the phase turns, or a window is counted. `TrailInv` (the saved
checkpoint never outruns the one in memory) then gives `CheckpointForward`; its
hard case is the count of a window, whose cursor is ahead because the windows of
the pipeline come in order (`OrderInv`). `CountersCover` needs `MemCounted` and,
by cardinalities, that the points between two cursors are in the window that was
counted (`CountedCovers`).

`KeysInv` is why a resumed run may trust its own list of keys for the points that
were there from the start: they were on the list of the run that stored the first
checkpoint, and that run created them. `ThresholdInv` says who can leave the bulk
threshold behind. Its hypothesis `BulkIsUndone` asks that no run is fast, or that
every run that is not either re-creates the target or only resumes; without it
the property is false (section 11).

`FullInv` is about the target being full when the alias is swapped and the source
dropped. A checkpoint does not say so by itself: an interrupted fast ingest is
stored at phase verify (the run `interrupt`), and so a later run reaches the
verification with a target that may miss points. `Complete` therefore excepts a
fast checkpoint at verify, and two more parts close the gap:

- `CopiedInv`: everything in the target, in a window, in the channel and in the
  consumer's groups is in the source, as long as the source exists (given that
  what the target held at first is);
- `CountedInv`: a run about to verify has either seen the ingest through, or
  counted a set `counted` (what the source held when the run began) that holds the
  wanted points and the whole target.

Equal counts then mean equal sets (`CountsTell`): points written after the run
began are in neither count, because a run that resumes at verify copies nothing.
`AliasInv` says that the alias is not left on a target that is gone, and that the
source is dropped only after the swap. Without `BulkIsVerified` the three properties
are false: a fast run under `--no-verify` takes the interrupted ingest for a
finished one, and foreign points make up in the count for missing ones (section 11).

## 4. Script execution

### Modules

`ScriptExec` models `execute_batch_nodes_inner` with `BatchGrouper`. The state
is the grouper (`pending`, `pendingKey`), the requests and reports that are to
be made before the loop goes on (`work`), the request on the wire, the results,
and the server's log of applied operations. `PassBarrier` is
`check_statement_barrier`, `Push` is `push_planned`, `Flush` is
`flush_planned_group`, `Reject` is `flush_on_error`, `Retries` is
`retry_forced_members_individually`/`retry_batch_individually`. `Lost` is any
transport error: the server may have applied nothing, a part or all of the
request, and the rest may still arrive (`Straggle`). `Miscounted` is an answer
with another number of items. `Timeout` drops the whole call.

A statement is a class (query, waited or unwaited write, UPSERT with implicit
embedding, explicit BATCH, anything else) and its operations. The class
`implicit` has two keys: `statement_batch_key` of the parsed statement says
unwaited, preparation sets `wait`, and the planned operation is keyed waited.
Other collections are other keys and add nothing.

`ScriptContract` is the promise: answers in order, nothing overtakes an
undecided earlier operation, ok only if applied, conditional at most once. It
has two actions, `Apply` (the server) and `Answer` (the caller is told of the
next operations); `Told` reads the answers off the results.

### Runs

| run | states | what it shows |
|---|---|---|
| `script` | 199,259 | 294 scripts of three statements, `on_error` stop and continue, two faults at any point: `TypeOK`, `OneAnswerEach`, `PreparedBehindBarrier`, `RejectedLast`, `SameAsSequential`, refinement `KeepsContract` |

*Bounds.* Three statements are the least with a pending group, a statement that
extends or ends it, and one behind that. The scripts are every triple over
four alphabets, chosen so that each pair of keys meets, two writes to one point
meet in one batch, deletes by filter stand among writes, and each kind of
rejection stands before, inside and after a group. Two faults let a lost batch
lose one of its retries. `SameAsSequential` speaks of operations that name their
points and of calls nothing straggles behind: a batch with a delete by filter
that is applied twice as a sequence is not what its members one by one would do
(section 11).

No liveness is stated: one task, every step of it enabled until it returns, so
absence of deadlock (checked) and finite scripts say the same.

### Proofs

`ScriptExecProofs` proves `ScriptTypeCorrect`, `AnsweredInOrder`
(`OneAnswerEach`), `BarrierHolds` (`PreparedBehindBarrier`) and
`RejectedBehindAnswers` (`RejectedLast`) for scripts of any length, blocks of
any size and any number of faults, from `ScriptAssumption` (a statement has an
operation, and a block alone may have several).

None of the last three is inductive: what is answered depends on what is still at
hand. The invariant `IInv` says that results, `work` and `pending`, read one
after the other, are in script order without repetition (`Chain`), and that
together they are exactly the operations of the statements passed so far
(`CompleteInv`). The other parts say where things can be: a request on the
wire is the head of `work`, no request is empty, everything pending has the
grouper's key, and behind the barrier that key is the statement's own. The
lemmas are about lists: `ConcatOrdered`, `TailOrdered` and `OneByOne` say when a
list of requests or responses stays ordered; `Flushed`, `FlushedThen`,
`HeadAnswered` and `HeadReplaced` apply them to what the code does with such a
list; then there is one lemma per action. The properties follow: with
nothing at hand at the end of the script, the results are all there is; what
precedes a rejected statement in the chain cannot be behind it.

`ImplementsContract` (`Spec => KeepsContract`) needs to know what the server has
seen. `DeliveryInv` says that of the request under way the server has what is not
left on the wire (`SentInv`), that nothing undecided and unapplied precedes what
is on the wire or straggles (`Covered`), and that a conditional operation
is in one request only, and not at hand any more once it was touched (`OnceInv`).
With it `ServerApplies` and `Straggle` are the contract's `Apply`; `Report`,
`Answered`, `Miscounted` and `Lost` are its `Answer` or change nothing it sees;
every other action is a stutter.

`RetriesLeaveNoTrace` (`[]SameAsSequential`) is about the data, for any points,
values and scripts. A batch that was lost after some of its members had been
applied is applied again from the first, so the server runs a prefix of it
twice. `RunShape` says what a sequence of operations that name their points and
have no condition does to one point: nothing, or it leaves a value, or it leaves
a value where there was one. Each of these done twice is the same as once
(`RunTwice`). `DataInv` follows a script while nothing has failed (`Fine`): the
store is that of what has been answered and of what the server has begun
(`Exact`), or a lost batch is being repeated (`Repeating`), and then the store is
that of its prefix run once and once more as far as the retries have come. A
batch with a conditional member leaves a failure to report, so it is not `Fine`.
At the end the answered operations are the script's: `OneOrder` says that there
is one way to put operations in order, `WholeOrder` that `Order` is one. `Run`
is a recursive function, and the lemmas about it are proved by the least index
at which they would fail.

## 5. Schema cache and close

### Modules

`SchemaCache` follows any number of tasks that call one executor, one call
after another, with a step for each await. A call is a query, an upsert with
unnamed or embedded vectors, the preparation of a point upsert, its execution any
time later, an `upsert_many` (a preparation and its chunks in one call), or DDL. A
task keeps one prepared statement, `tmpl`, past the calls that come between its
preparation and its executions; `asOf` is what DDL had returned when its
preparation began.

| code | actions |
|---|---|
| `ensure_open` and the first look at the cache | `Begin`, `Peek` |
| `get_cached_collection_info`, `get_cached_topology`: exists, fetch outside the lock, insert | `Exists`, `Lookup`, `Fetch`, `Insert` |
| auto-creation of a missing collection | `Ensure`, `Make` |
| the request of a statement, answered or refused | `Serve`, `ServeDdl`, `Reject` |
| invalidation after DDL | `Invalidate` |
| `execute_prepared` of a statement prepared by an earlier call | `Execute` |
| a chunk by its template, or as a statement of its own (`SlowPath`) | `NextChunk` |
| the request timeout and a request that lands after it | `Timeout`, `Land` |
| `Executor::close` under `close_lock` | `TakeLock`, `Clear`, `CloseBackend` |

A schema is a set of dense vectors and the number of changes served when it was
read; the numbers let a property speak of age. `overlap` records that a change
was served between a fetch and its insertion, or that an invalidation was lost
with its answer or its call: those are the cases in which the cache may stay
stale.

### Runs

| run | states | what it shows |
|---|---|---|
| `cache` | 347,448 | two tasks and two closers, one failed, lost, late or timed-out request: `Fresh`, `ReadYourDdl`, `CloseIsFinal`, and `CallsReturn` under fairness. One task queries, alters, prepares, executes and calls `upsert_many`; the other queries, upserts with unnamed and embedded vectors, creates and drops |
| `stale` | violation | a query fetches, DROP is served, invalidates and returns, the query inserts what it fetched: later calls go by the schema of the dropped collection, against `executor/mod.rs:63` |

`ReadYourDdl` compares the schema of a call with the DDL that had returned when the
call began. Where the call goes by a template, it compares with what had returned
when the preparation of that template began: an execution may go by a schema
older than DDL that returned since, which is what the comment at
`executor/prepared.rs:209` accepts, and the run reaches such states.

*Bounds.* Two tasks are the least for a fetch overlapped by DDL; two closers for
the lock. The two share the operations (`Kinds`): each task reads the cache while
the other changes the schema. `MaxVersion = 1`: no DDL begins once a change is served,
though two may be served by DDL of both tasks at once; a template is then older
than DDL that returned before its execution. In `stale` two changes are allowed; one fault is one request lost anywhere. The
proofs remove all four bounds.

*Fairness.* Weak fairness of each task's steps: an await that is ready is
polled, and a request is answered or fails. Callers and closers owe nothing.

### Proofs

`CacheIsFresh` (`[]Fresh`), `CallsSeeDdl` (`[]ReadYourDdl`) and `ClosesOnce`
(`[]CloseIsFinal`), for any number of tasks, closers, chunks, faults and
changes, from `CacheAssumption`. `ReadYourDdl` needs to know where a schema came
from. `CallInv` says it of every call: a fetched schema that is about to be inserted
is still the server's unless a change overlapped, a call that looks its schema up
does not go by its template, a preparation began when its call did, and an idle
call holds none. `CacheInv` adds that an entry is no older than any DDL that
returned (`CachedIsRecent`). `CloseInv` ties the lock, the flag and the count together.

## 6. Edge backend

### Modules

`EdgeShards` follows any number of calls on one collection, with a step for
each await and each access to the file system: `CheckCache`, `TakeEntry`,
`Recheck`, then on the blocking pool `Inspect` and `Load` or `New`, then
`Insert`, `Unlock`, `DropGuard`, `FreeGuard` (`open_shard_inner` and
`OpeningGuard`); `Evict`, `Forget`, `Erase` (`delete_collection`); `Drain`
(`close`). `ConstructionFails` and `EraseFails` are engine and I/O errors, which
may leave a directory without segments; `Cancel` drops a call's future at an
await while its closure goes on. `disk` says whose segments are on disk, so a
shard loaded from a directory that was since deleted or re-created shows.
`StrongCount` is what `OpeningGuard::drop` reads: the map's reference and those
of the guards. A guard's own reference goes one step after its decision
(`FreeGuard`), as in Rust, where fields are dropped after the body of `drop`.

That the engine refuses to create a shard over existing segments, and to load a
directory without them, is assumed of the external engine.

`EdgeContract` is a collection that exists or not, whose every answer is true at
one moment of its call. `EdgeShardsProofs` holds the theorems.

### Runs

| run | states | what it shows |
|---|---|---|
| `edge` | 266,088 | three calls of any kind, one fault, DROP running alone: `TypeOK`, `OneConstruction`, `CachedShardOnDisk`, refinement `KeepsContract`, and `CallsReturn` under fairness |
| `ghost` | violation | a DROP while another call loads: it evicts, the other call inserts the shard, the directory goes. Reads of the dropped collection succeed, against `backend/mod.rs:223` |

*Bounds.* Three calls are the least for a holder, a waiter and a newcomer
around the removal of the mutex. One fault is one cancelled call or one engine
error anywhere. `DropsAlone` is the discipline of callers under which the
backend keeps its promises; nothing in the code enforces it, which is what
`ghost` is about. Calls are model values that differ only in name; symmetry is
not used, because the run checks liveness.

*Fairness.* Weak fairness of each call's steps and of its closure: the tokio
runtime polls ready tasks and runs blocking closures. A waiting call needs no
strong fairness: the mutex is granted to some waiter, and each of finitely many
calls locks it once.

### Proofs

`TypeCorrect` needs no assumption on the callers. With `DropsAlone`:
`ConstructionSerialised` (`[]OneConstruction`), `MapMatchesDisk`
(`[]CachedShardOnDisk`) and `ImplementsContract` (`Spec => KeepsContract`), for
every finite set of calls and every number of faults.

`EdgeInv` is inductive: `LockInv` (who waits or works refers to the mutex the
map knows, and a worker holds it), `DropInv` (a DROP under way is alone and has
emptied the map), `ShardInv` (what is about to be published is what is on
disk), `JobInv` (closures, calls and answers go together), `CachedShardOnDisk`
and `TypeOK`. The step that matters is `DropGuard`: `TwoGuardsKeepEntry` shows,
by cardinality, that the strong count is above two while a second guard refers
to the mutex, so `LockInv` survives. Without it two calls could hold two mutexes
for one collection; the mutant `DropGuardAlways` shows that TLC finds this.

## 7. Dump

### Modules

`Dump` is one collection dumped by repeated runs of `qql dump`, on top of
`ScrollPages`: `Start`, `Check`, `CreateFile`, `ListKeys` (the header declares
the shard keys), `NextPage` and `NextShard` (one stream per key), `Flush`,
`Rename`, and the copy that replaces a failed rename (`OpenCopy`, `FillCopy`,
`Unlink`). `Fail` is `dump_collection`'s handling of an error of the inner part,
`Kill` stops the process at any step, `Write` creates, moves or deletes a point.
A file is whole, a part of a script, or absent; its content is the shard keys it
declares and its batches of points. An error removes the temporary file, and that
removal may fail unseen (`RemoveTmp`), so the next run may meet a part of a script
there. `Odd` are the points
`point_to_upsert_object` leaves out.

### Runs

| run | states | what it shows |
|---|---|---|
| `dump` | 1,774,252 | three points under two keys or none, pages of one point, two runs, two writes during each, two failing calls or kills and removals that fail: `DumpIsFaithful`, `DoneIsFaithful`, and `RunEnds` under fairness |
| `copy` | violation | the rename fails, and so does the copy that follows, halfway: the run reports an error and what was at the output is gone, against `dump/mod.rs:62-64` |

*Bounds.* Pages of one point over three points give a first, a middle and a
last page in one shard; two writes can move a point ahead of and behind the
cursor; the second run meets what the first one left. Two faults are a rename
that fails and a copy that does.

*Fairness.* Weak fairness of the run's own steps: one sequential process.

### Proofs

`ScriptIsFaithful` (`[]DumpIsFaithful`) is the theorem about the content, for any
writes while the dump runs; it assumes that a collection has finitely many shard
keys. `DumpInv` says of the points that stay where they are: those of a shard whose turn
is over are in the script once (`WrittenOnce`), those of a shard that is still to
come are not in it (`Unwritten`), and in the current shard the stream's cursor
tells them apart (`Scrolled`). `AdvanceCovers` moves the cursor past a page
without leaving a point out, `PageBeyond` says that a page repeats nothing the
stream has passed. `Said` follows what a batch claims: it was true of its points
when it was written, and still is of those that stayed. `DoneScriptIsFaithful`
(`[]DoneIsFaithful`) brings it to the output of a run that reports success:
`FileInv` says that only a whole temporary file gets as far as the rename or the
copy, and that what the copy has written when the temporary file is removed is
that file.

## 8. Model cache

### Modules

`ModelCache` is `load_cached` and the `try_with_options` that calls it slot by
slot: `Check` without the load lock, `Lock`, `Recheck` under it, `Load` or
`LoadFails` or `LoadPanics`, `Insert`, `Finish`. An entry is weak: it upgrades
while some host owns the copy (`Live`), and `Drop` gives an embedder up at any
moment. `Refuse` is an unknown model or a faulty BM25 configuration.

### Runs

| run | states | what it shows |
|---|---|---|
| `models` | 31,494 | three threads, one or two of two models each, again and again: `TypeOK` (with what a construction may own), `OneLiveCopy`, and `ConstructionsReturn` under fairness |

*Bounds.* Three threads are a loader, a waiter and a holder who drops; two
models in one order, as `try_with_options` fills its slots in one order; two
copies of each model to tell a new one from one that was freed.

*Fairness.* A thread runs on and a load ends in one of its three ways (weak).
`Lock` is strongly fair: the lock is freed and taken again by others, and a
thread that waits for it gets it at last. `std::sync::Mutex` gives no order but
the operating system's scheduler does not starve a thread for ever.

### Proofs

`LoadedOnce` (`[]OneLiveCopy`) for every set of threads, models and
configurations. `IInv`: who is inside holds the lock (`Locked`), a live copy is
what its entry upgrades to or is about to be (`Entered`), and who loads has
found the entry dead and it stays so (`Dead`).

`OwnsWhatItFilled` (`[]TypeOK`): the part of `TypeOK` that is more than types says
what a construction owns. `SlotInv` adds that the slots still to be filled are
distinct and that it owns nothing for them, except for the current one between
the load or the upgrade and `Insert`.

## 9. Preparation of a statement

### Modules

- `EmbedBatch`: one request for a batch of inputs and all that may come back:
  the HTTP embedder puts the items where their indices say and refuses a wrong
  count, an index out of range or one that comes twice (`Scatter`); the answer of
  an embedder in the process is checked by its length.
- `UpsertEmbed`: an UPSERT. `ConfigureBare`, `ConfigureMissing` and
  `ConfigureKnown` fill in targets from the schema, `EmbedLeg` brings the vectors
  of one USING target or EMBED directive, `Ensure` and `Create` are
  auto-creation, `Send` is the upsert; `Fail` and `Change` are failing requests
  and another client.
- `QueryEmbed`: a QUERY, as operators. `NeedsKind` decides whether the schema is
  needed, `Resolve` fills in the targets, `QueryJobs` is the walk that collects,
  `NextRequest` groups by modality and model, `Spread` distributes an answer, and
  `Apply` is the walk that puts the vectors into the tree by counting.
- `Prepare`: `prepare_statement` for either, with `ResolveQuery`, `Collect`,
  `Request`, `PutVectors` for a query.

A statement of nested queries is the table of its queries, the statement itself
first, each with the numbers of the queries below it (`ctes`, `prefetch`; 0 is a
prefetch that names a CTE). `IsStatement` says that the table is a tree, as boxes
of the AST are. The two recursive walks of the code, `collect_query_jobs` and
`apply_query_embeddings`, are given by what each visits, query by query:
`Collected` and `Applied` say it separately, from the function each stands for,
and `InOrder` makes the sequence of visits out of it. The depth limit is `TooDeep`.

A vector is the modality, the model and the input it was made from, so a vector
in the wrong place shows. An embedder of the process may answer with empty vectors
(`void`; the HTTP one checks sizes). The applying walk of a query refuses them, except
sparse ones and those of HYBRID (`Spared`). In an upsert an empty multivector ends
the preparation as a failed request does, and other empty vectors are sent as they
are, which no property tells apart.

### Runs

| run | states | what it shows |
|---|---|---|
| `prepare` | 8,206 | 24 queries and 13 upserts, six schemas and no collection, any order of answers, one change by another client: `TypeOK`; `EmbedsTheQuery` (the two walks agree, no grouping or order of answers moves a vector, and a query whose requests were answered is given up exactly for an empty vector), `SkipIsSafe` (the schema is skipped only where it changes nothing), `KindsFit` (outside HYBRID what is embedded is what its target takes); `EachPointItsOwn`, `UserVectorsKept`, `TargetsFit` |

*Bounds.* The queries are one of each shape of expression and target, and
combinations with CTEs, prefetches (a CTE within a prefetch among them), two
models and three modalities; `MaxDepth`
is 2 so that some are deeper than the walks descend. The schemas have no, one
and two dense vectors, with and without sparse and multivectors. Upserts have
two or three points: with and without text, with own vectors under the target's
name, with an unnamed vector. The run stops when a statement is sent or refused
(`CHECK_DEADLOCK FALSE`). Every path is finite, so no liveness is stated.

### Proofs

All of `PrepareProofs`, and all seven properties of the run.

*Upserts.* `OwnVectors`: `UpsertSpec => []EachPointItsOwn`, for all points, clauses,
schemas and answers of either embedder. A point's vector is written by one leg
and must survive the later ones; the reason is that two legs never have one
target (`Duplicate`), and that a leg's source is read from fields nothing
changes (`Kept`) except for the leg without clauses, which reads whether a point
has vectors at all (`Bare`).

`UserVectorsStay` (`[]UserVectorsKept`) and `TargetsAreFit` (`[]TargetsFit`)
follow the names. `Vectors` says where each vector of a point comes from: the
user, or a leg of its name and kind. `Resolved` says that targets configured from
a schema are in it (`FromSchema`), and that the legs a collection is created for
agree with each other and with it (`Agree`, `ForLegs`). `UpsertAssumption` states what the types of
the code give: the vectors of a point are either named or one without a name
(`PointVectors`), and a multivector is a dense vector (`schema_targets`).

*Queries.* `QueryEmbedded` (`[]EmbedsTheQuery`), `SkippingIsSafe`
(`[]SkipIsSafe`), `KindsAreFit` (`[]KindsFit`), for every tree of queries, depth
limit, schema and answer. `QueryAssumption` says that the statements are trees,
that no sparse vector is without a name or has the name of a dense one (Qdrant
refuses both), and that the names the executor itself gives are among the names.

`WalksAgree` is what they rest on: if the vectors of all jobs of a statement have
come, the applying walk takes each job where it expects it, ends with none left
and has built `Embedded(t)`, or stops at an empty vector it refuses. It needs four things:

- *One order.* `InOrder` is defined by recursion over the queries below a query,
  which have larger numbers; `InOrder` is an order (`IsOrder`) by well-founded
  definition, what it goes through below a query is that query and what is below
  it, and in a tree no query is gone through twice (a least counterexample each).
- *Places.* The jobs of the walk are the jobs of its queries, joined
  (`FlattenSeq`); `Offsets` says where those of a query begin, and that a job has
  one place. Within an expression the same lemmas place the jobs of its inputs.
- *One input.* At its place an input finds its own job (`ApplyInputIs`); both
  functions choose modality and refusal by the same target.
- *One pass.* After n queries the cursor is where the (n+1)st query's jobs begin,
  the queries gone through are embedded and the others untouched, which needs
  that none is met twice.

The answers side is `Coming`: what has come for a job is that job's vector. A
request takes the positions of one modality and model (`Positions`, each position
once), and `Spread` puts the answer's vectors back where they were taken from,
whatever the order of the answer (`AllHit`: n different indices below n are all
of them).

*Composition.* `Prepared` (`Spec => [](UpsertInv \/ QueryInv)`) is the invariant of
`Prepare`. `UpsertInv` is that of `UpsertEmbed` with the types; `QueryInv` says where
the tree comes from (`TreeIs`: as it came and in need of nothing, or configured
from the schema that was seen) and what jobs and vectors are at each stage
(`JobsAre`; in particular a preparation that failed with jobs has one without a
vector, or an empty one). `TypeCorrect` follows, and `PromisesKept`
brings the three promises about upserts to `Spec`, since a preparation of an upsert
is one of `UpsertSpec` (`UpsertAsAlone`).

## 10. What is only checked, and what is not modelled

*Only model-checked.* Liveness (`Completes`, `CallsReturn`, `RunEnds`,
`ConstructionsReturn`): the prover does not treat fairness.

*Left out of the migration.* The dry run, `--where`, progress output, the wire
form of schemas; the attempt counting of `retry.rs` (its outcome, an upsert lost
for good, is there); an upsert that is served after its process ended and after
a later run re-created the target.

*Left out of the executor.* The single-statement entry points of the batch
path, response decoding, and `BatchGrouper` as used from WASM; what a prepared
vector template binds.

*Left out of the edge backend.* A cancelled DROP, whose removal of the directory
goes on; shards still used by a caller when they are evicted; all that is done
with a shard once it is open.

*Left out of the dump.* How the CREATE and INDEX statements are worded.

*Left out of the preparation.* The BM25 text pipeline, point placeholders,
statements without an embedder, the layout of vectors.

*Not modelled.* Lowering of filters (`qql-plan/src/filter.rs`, the gRPC and edge
converters), the planner and its projections, the front end, the decoders:
functions from trees to trees whose properties speak of every tree, and which
the repository tests against a corpus, and their tables (stop words, tokens)
with them. The bindings, the CLI shell and the tools: they marshal values to the
components above. The shared Python runtime and the snapshot download: one lock
and one actor.

## 11. Observations

Things the models brought up besides the findings in `PROJECT.json`.

Migration:

- A resumed migration sends the point at its cursor again: a stored cursor is
  not a fallback, so the inclusive repeat is not dropped. Upserts are
  idempotent; the `written` counter counts it twice, which is why
  `CountersCover` is an inequality.
- With fast bulk onto an *existing* target, foreign points can make up in the
  count for points an interrupted ingest has not copied; verification then
  passes and the alias is swapped. This is what `BulkIsVerified` rules out.
- `--cutover` is not part of a checkpoint's compatibility. A run that adds it
  on a checkpoint whose phase is already `done` skips the swap.
- A shard key that appears between two runs is discovered by the second, taken
  for created, and upserted to without existing (`pipeline.rs:51`, against
  `discover.rs:3-5`); the run fails until the key is created by hand.
- Under fast bulk, an ingest that failed or was interrupted is stored as phase
  verify (finding `interrupt`): no re-run copies the rest, each ends in a count
  mismatch until `--restart`.
- A crash between dropping the source and saving `done` (`mod.rs:233`) leaves a
  checkpoint no later run accepts, because the missing source is refused first
  (against `checkpoint.rs:12`). Nothing is lost by it.
- A schema phase that fails after CREATE COLLECTION (`mod.rs:135`) leaves the
  bulk threshold on the target and no checkpoint that would bring a later run to
  it, against `CHANGELOG.md:156`. A later run with `--no-fast-bulk` that keeps the
  target then finishes with indexing suppressed, and so does one with `--restart`
  after an interrupted fast run: it neither restores the threshold nor looks at
  it (`schema.rs:204-227`). This is what `BulkIsUndone` rules out.

Script execution:

- After a transport error a batch of updates is applied as a sequence a second
  time (`executor/batch.rs:561`). For operations by id that is harmless
  (`SameAsSequential`). A batch of SET and `DELETE ... WHERE` can delete on the
  second pass a point the script would have kept, all results being ok;
  `qql-plan/src/plan.rs:392` counts both as safe to retry.
- UPSERTs with an implicit embedding are never grouped: their parsed and
  planned keys differ, so the barrier flushes the group they would join. The
  comment at `qql-plan/src/batch.rs:71` ("so both grouping levels agree before
  planning") does not hold for them; the effect is only more requests.

Schema cache and close:

- A first `close` that is cancelled or whose backend fails leaves `closed` set;
  a later close returns ok without closing the backend.
- An upsert chunk on the slow path of `upsert_many` asks again whether the
  executor is open, so a call in flight can be refused halfway
  (against `executor/mod.rs:153-154`).
- A call in flight refills the cache after `close`; nothing reads it any more.
- A prepared upsert keeps the schema it was prepared with for as long as it
  lives, past any later DDL. If the collection has been re-created with two dense vectors since, its
  unnamed vectors still go to the one name it knew.
- Two upserts that both find the collection missing both create it; the second
  fails with already-exists, its points unsent.

Edge backend:

- When the last two guards of an opening mutex are dropped at the same time,
  each sees the other's reference and neither removes the entry. It stays in the
  map until the next opening or DROP; construction stays serialised.
- A cancelled opener releases the mutex while its closure still constructs, so
  the next call may construct the same shard beside it. `OneConstruction`
  therefore counts the calls that are waited for.
- `close` while a call constructs leaves that call's shard open.

Dump:

- When the rename fails, the copy that follows truncates the output that was
  there; an error or kill during it loses the old script (finding `copy`). The
  complete temporary file is kept, but any later run empties it first, and one that
  fails before that removes it.
- A failed removal of the temporary file is ignored (`dump/mod.rs:91-93`): a part of
  a script may stay beside the output after an error. The next run empties it.
- A point that moves between shard keys during the dump may be in the script
  twice or not at all; `DumpIsFaithful` speaks of points that stay.
- Two dumps to one output share the temporary file.

Model cache:

- A load that panics poisons its lock: that model cannot be constructed again
  for the life of the process.

Preparation:

- A point with text only in a field other than `text` (`title`, say) does not
  make an upsert implicit: its embedding goes to the vector `dense`, whatever the
  collection has. That is why `TargetsFit` speaks of statements with clauses or
  with text that implies them.
- HYBRID on a collection whose dense vector is a multivector embeds a plain dense
  vector for it, against `qql-embed/topology.rs:7-8` (`KindsFit` says nothing of
  it), and it is the one expression that sends an empty
  dense vector instead of refusing it (`resolve_query.rs:894-897`).
- An omitted target on a collection whose unnamed vector is a multivector gets plain
  vectors too: only a named target is marked as one.
- AS MULTI on a plain dense target is taken as it is: rows go to it.
- USING and EMBED replace a vector of the user's that has the target's name.
- A collection created for an upsert gets names for its dense and sparse
  clauses only; what MULTI, IMAGE or EMBED made, or a clause without a target
  beside a named one of its kind, is refused by it.
