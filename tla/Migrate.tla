------------------------------ MODULE Migrate ------------------------------
(***************************************************************************)
(* `qql migrate`: copy one collection to another, crash-safely             *)
(* (crates/qql-cli/src/migrate).                                           *)
(*                                                                         *)
(* A run is one process.  It prepares the target's schema, streams pages   *)
(* of the source through a bounded channel into windows of upserts, saves  *)
(* a checkpoint after every window, restores the target's optimizer        *)
(* threshold, verifies the counts, swaps an alias and may drop the source. *)
(* The process can fail, be interrupted (Ctrl+C) or be killed at any       *)
(* point; the operator runs it again, perhaps with other options.  What    *)
(* survives a run is the two collections, the alias and the checkpoint.    *)
(***************************************************************************)
EXTENDS ScrollPages, Sequences

CONSTANTS
  Initial,    \* points the source holds when the first run starts
  Late,       \* points an application may write to the source later on
  Keys,       \* custom shard keys
  Class,      \* what becomes of each point: see PointClasses
  Options,    \* the option records the operator may run with
  Workers,    \* --workers
  Existing,   \* whether the target exists before the first run: TRUE, FALSE or both
  Foreign,    \* points an existing target holds that are not the source's
  MaxFaults   \* bound on failed calls, interrupts and crashes in a behaviour

\* A key: the shard the point is routed to.  "unsharded": no shard key is
\* configured.  "collision": the payload has an `id` or `vector` field and the
\* point is skipped.  "keyless": no shard key, --on-missing-shard-key skip.
\* "unroutable": no shard key, --on-missing-shard-key error.
PointClasses == Keys \cup {"unsharded", "collision", "keyless", "unroutable"}

OptionRecords ==
  [restart : BOOLEAN, resume : BOOLEAN, recreate : BOOLEAN, fast : BOOLEAN,
   verify : BOOLEAN, cutover : BOOLEAN, drop : BOOLEAN]

\* validate_options rejects the other combinations before any call is made.
ValidOptions ==
  {o \in OptionRecords : ~(o.restart /\ o.resume) /\ (o.drop => o.cutover)}

ASSUME MigrateAssumption ==
  /\ Initial \subseteq Points /\ Late \subseteq Points /\ Foreign \subseteq Points
  /\ Keys \cap {"unsharded", "collision", "keyless", "unroutable"} = {}
  /\ Class \in [Points -> PointClasses]
  /\ Options \subseteq ValidOptions /\ Options # {}
  /\ Workers \in Nat \ {0}
  /\ Existing \subseteq BOOLEAN /\ Existing # {}
  /\ MaxFaults \in Nat

VARIABLES
  src,       \* the source collection
  tgt,       \* the target collection
  alias,     \* what the --cutover alias points at
  cp,        \* the checkpoint file; phase "none" when there is no file
  pc,        \* where the running process is; "idle" when none runs
  opts,      \* options of the running process, or of the last one
  mem,       \* the process's in-memory checkpoint
  srcCount,  \* source_count captured when the run started
  created,   \* created_keys: shard keys the run believes the target has
  prod,      \* the producer: its stream, its window so far, still open
  chan,      \* windows in the bounded channel
  cons,      \* the consumer: its window, groups to send, in flight, failed
  ingestErr, \* the ingest block ended with an error
  outcome,   \* how the last run ended
  faults     \* faults so far

stores   == <<src, tgt, alias, cp>>
pipeline == <<prod, chan, cons>>
control  == <<opts, srcCount>>
vars     == <<src, tgt, alias, cp, pc, opts, mem, srcCount, created,
              prod, chan, cons, ingestErr, outcome, faults>>

-----------------------------------------------------------------------------
(* Types. *)

SavedPhases == {"ingest", "optimize", "verify", "cutover", "done"}
Phases      == {"none", "schema"} \cup SavedPhases
Checkpoints ==
  [phase : Phases, cursor : Cursors, written : Nat, skipped : Nat, fast : BOOLEAN]

Steps == {"idle", "schema", "create", "indexes", "saveIngest", "ingest",
          "decide", "restore", "saveVerify", "verify", "cutover", "drop",
          "saveDone", "remove"}

\* fill_window: up to Workers pages, and the cursor after the last of them.
Windows == [next : Cursors, pages : Seq(SUBSET Points)]

\* split_by_shard: the part of a page that is upserted under one shard key.
UpsertGroups == [page : Nat, key : Keys \cup {"unsharded"}, pts : SUBSET Points]

TypeOK ==
  /\ src \in [exists : BOOLEAN, pts : SUBSET Points]
  /\ tgt \in [exists : BOOLEAN, pts : SUBSET Points, keys : SUBSET Keys,
              threshold : {"own", "original", "bulk"}]
  /\ alias \in {"none", "old", "target"}
  /\ cp \in Checkpoints /\ cp.phase # "schema"
  /\ pc \in Steps
  /\ opts \in Options
  /\ mem \in Checkpoints
  /\ srcCount \in Nat
  /\ created \subseteq Keys
  /\ prod \in [stream : Streams, win : Windows, open : BOOLEAN]
  /\ chan \in Seq(Windows)
  /\ cons \in [busy : BOOLEAN, win : Windows, todo : SUBSET UpsertGroups,
               inflight : SUBSET UpsertGroups, failed : BOOLEAN]
  /\ ingestErr \in BOOLEAN
  /\ outcome \in {"none", "ok", "error", "killed"}
  /\ faults \in 0..MaxFaults

-----------------------------------------------------------------------------
(* Initial values. *)

NoCheckpoint ==
  [phase |-> "none", cursor |-> Origin, written |-> 0, skipped |-> 0, fast |-> FALSE]

NewCheckpoint(o) == [NoCheckpoint EXCEPT !.phase = "schema", !.fast = o.fast]

EmptyWindow(next) == [next |-> next, pages |-> <<>>]

Producer(after) ==
  [stream |-> OpenAt(after), win |-> EmptyWindow(after), open |-> TRUE]

IdleConsumer ==
  [busy |-> FALSE, win |-> EmptyWindow(Origin), todo |-> {}, inflight |-> {},
   failed |-> FALSE]

NoTarget == [exists |-> FALSE, pts |-> {}, keys |-> {}, threshold |-> "own"]

OwnTarget == [exists |-> TRUE, pts |-> Foreign, keys |-> {}, threshold |-> "own"]

Init ==
  /\ src = [exists |-> TRUE, pts |-> Initial]
  /\ \E e \in Existing : tgt = IF e THEN OwnTarget ELSE NoTarget
  /\ alias = "old"
  /\ cp = NoCheckpoint
  /\ pc = "idle"
  /\ opts \in Options
  /\ mem = NoCheckpoint
  /\ srcCount = 0
  /\ created = {}
  /\ prod = Producer(Origin)
  /\ chan = <<>>
  /\ cons = IdleConsumer
  /\ ingestErr = FALSE
  /\ outcome = "none"
  /\ faults = 0

-----------------------------------------------------------------------------
(* Steps that several phases share. *)

\* Failed calls, interrupts and crashes are bounded by MaxFaults.
Fault == faults < MaxFaults /\ faults' = faults + 1

\* The process ends: what it held in memory is gone.
Halt(result) ==
  /\ pc' = "idle"
  /\ outcome' = result
  /\ mem' = NoCheckpoint
  /\ srcCount' = 0
  /\ created' = {}
  /\ prod' = Producer(Origin)
  /\ chan' = <<>>
  /\ cons' = IdleConsumer
  /\ ingestErr' = FALSE
  /\ UNCHANGED opts

\* The process goes on at another step, leaving its pipeline alone.
Goto(step) ==
  /\ pc' = step
  /\ UNCHANGED <<outcome, srcCount, created, pipeline, opts>>

\* The process is killed, wherever it is.
Crash ==
  /\ pc # "idle"
  /\ Fault
  /\ Halt("killed")
  /\ UNCHANGED stores

\* An application writes to the source while it exists.
WriteSource(p) ==
  /\ src.exists
  /\ p \in Late \ src.pts
  /\ src' = [src EXCEPT !.pts = @ \cup {p}]
  /\ UNCHANGED <<tgt, alias, cp, pc, control, mem, created, pipeline, ingestErr,
                 outcome, faults>>

-----------------------------------------------------------------------------
(* migrate_collection up to the phases: source, shard keys, checkpoint. *)

\* discover_shard_keys: an exact FACET, or a scroll when it is truncated.
Discovered == {Class[p] : p \in src.pts} \cap Keys

\* --shard-key-field finds no value, and no policy lets the run go on.
NoKeysFound ==
  /\ Discovered = {}
  /\ \E p \in Points : Class[p] \in Keys \cup {"unroutable"}

\* load_or_init: resume a compatible checkpoint, else start at the schema phase.
Fresh(o)     == o.restart \/ (cp.phase = "none" /\ ~o.resume)
Resumable(o) == ~o.restart /\ cp.phase # "none" /\ cp.fast = o.fast

\* Mutant: the source's existence is not checked.
AcceptedBlindly(o) == ~NoKeysFound /\ (Fresh(o) \/ Resumable(o))

Accepted(o) == src.exists /\ ~NoKeysFound /\ (Fresh(o) \/ Resumable(o))

BeginRun(o, start) ==
  /\ opts' = o
  /\ mem' = start
  /\ srcCount' = Cardinality(src.pts)
  /\ created' = Discovered
  /\ pc' = CASE start.phase = "schema" -> "schema"
             [] start.phase = "ingest" -> "ingest"
             [] OTHER                  -> "decide"
  /\ prod' = Producer(start.cursor)
  /\ UNCHANGED <<src, tgt, alias, chan, cons, ingestErr, outcome, faults>>

\* Mutant: --restart leaves the old checkpoint in place.
StartFreshKeeping(o) ==
  /\ pc = "idle" /\ Accepted(o) /\ Fresh(o)
  /\ cp' = cp
  /\ BeginRun(o, NewCheckpoint(o))

\* --restart removes the old checkpoint before anything else is done.
StartFresh(o) ==
  /\ pc = "idle" /\ Accepted(o) /\ Fresh(o)
  /\ cp' = IF o.restart THEN NoCheckpoint ELSE cp
  /\ BeginRun(o, NewCheckpoint(o))

StartResumed(o) ==
  /\ pc = "idle" /\ Accepted(o) /\ ~Fresh(o)
  /\ cp' = cp
  /\ BeginRun(o, cp)

\* No source, no shard keys, nothing to resume, or other schema options.
StartRefused(o) ==
  /\ pc = "idle" /\ ~Accepted(o)
  /\ opts' = o
  /\ outcome' = "error"
  /\ UNCHANGED <<stores, pc, mem, srcCount, created, pipeline, ingestErr, faults>>

-----------------------------------------------------------------------------
(* The schema phase: prepare_target, then the first save. *)

\* Dropping a collection drops the aliases that point at it.
DropTarget ==
  /\ pc = "schema" /\ opts.recreate /\ tgt.exists
  /\ tgt' = NoTarget
  /\ alias' = IF alias = "target" THEN "none" ELSE alias
  /\ Goto("create")
  /\ UNCHANGED <<src, cp, mem, ingestErr, faults>>

\* fast_bulk raises the indexing threshold in the CREATE statement itself.
CreateTarget ==
  /\ pc = "create" \/ (pc = "schema" /\ ~tgt.exists)
  /\ tgt' = [exists |-> TRUE, pts |-> {}, keys |-> {},
             threshold |-> IF opts.fast THEN "bulk" ELSE "original"]
  /\ Goto("indexes")
  /\ UNCHANGED <<src, alias, cp, mem, ingestErr, faults>>

KeepTarget ==
  /\ pc = "schema" /\ tgt.exists /\ ~opts.recreate
  /\ Goto("indexes")
  /\ UNCHANGED <<stores, mem, ingestErr, faults>>

\* Mutant: the keys are noted as created and never are.
CreateShardKeysNot ==
  /\ pc = "indexes"
  /\ mem' = [mem EXCEPT !.phase = "ingest"]
  /\ Goto("saveIngest")
  /\ UNCHANGED <<src, tgt, alias, cp, ingestErr, faults>>

\* CREATE INDEX for every payload index, CREATE SHARD KEY for every found key.
CreateShardKeys ==
  /\ pc = "indexes"
  /\ tgt' = [tgt EXCEPT !.keys = @ \cup created]
  /\ mem' = [mem EXCEPT !.phase = "ingest"]
  /\ Goto("saveIngest")
  /\ UNCHANGED <<src, alias, cp, ingestErr, faults>>

SaveIngest ==
  /\ pc = "saveIngest"
  /\ cp' = mem
  /\ Goto("ingest")
  /\ UNCHANGED <<src, tgt, alias, mem, ingestErr, faults>>

-----------------------------------------------------------------------------
(* The producer: fill_window and the bounded channel (stream_points). *)

WindowFull == Len(prod.win.pages) = Workers

\* One page joins the window, or the stream turns out to be exhausted.
FetchPage ==
  /\ pc = "ingest" /\ prod.open /\ ~prod.stream.done /\ ~WindowFull
  /\ LET page == Page(prod.stream, src.pts)
         next == Advance(prod.stream, src.pts)
     IN prod' = [prod EXCEPT
          !.stream = next,
          !.win = IF page = {} THEN @
                  ELSE [next |-> next.after, pages |-> Append(@.pages, page)]]
  /\ UNCHANGED <<stores, pc, control, mem, created, chan, cons, ingestErr, outcome, faults>>

\* tx.send waits for room; the window goes out full, or short at the end.
SendWindow ==
  /\ pc = "ingest" /\ prod.open
  /\ prod.win.pages # <<>>
  /\ WindowFull \/ prod.stream.done
  /\ Len(chan) < 2 * Workers
  /\ chan' = Append(chan, prod.win)
  /\ prod' = [prod EXCEPT !.win = EmptyWindow(prod.win.next)]
  /\ UNCHANGED <<stores, pc, control, mem, created, cons, ingestErr, outcome, faults>>

\* Mutant: the sender outlives the producer.
CloseChannelKeepsSender ==
  /\ pc = "ingest" /\ prod.open
  /\ prod.stream.done /\ prod.win.pages = <<>>
  /\ UNCHANGED vars

\* An empty window ends the producer, which closes the channel.
CloseChannel ==
  /\ pc = "ingest" /\ prod.open
  /\ prod.stream.done /\ prod.win.pages = <<>>
  /\ prod' = [prod EXCEPT !.open = FALSE]
  /\ UNCHANGED <<stores, pc, control, mem, created, chan, cons, ingestErr, outcome, faults>>

-----------------------------------------------------------------------------
(* The consumer: upsert_window, upsert_groups and the window's save. *)

WindowPoints(win) == UNION {win.pages[i] : i \in DOMAIN win.pages}

\* Mutant: a later page's records replace those of the same shard key.
GroupsLastPageWins(win) ==
  {g \in {[page |-> i, key |-> k, pts |-> {p \in win.pages[i] : Class[p] = k}] :
            i \in {Len(win.pages)} \cap DOMAIN win.pages, k \in Keys \cup {"unsharded"}} : g.pts # {}}

\* split_by_shard: one group for each page and shard key.
Groups(win) ==
  {g \in {[page |-> i, key |-> k, pts |-> {p \in win.pages[i] : Class[p] = k}] :
            i \in DOMAIN win.pages, k \in Keys \cup {"unsharded"}} : g.pts # {}}

Unroutable(win) == \E p \in WindowPoints(win) : Class[p] = "unroutable"

KeysOf(groups) == {g.key : g \in groups} \cap Keys

\* stream_points returns an error: both halves of the pipeline are dropped.
FailIngest ==
  /\ pc' = "decide"
  /\ ingestErr' = TRUE
  /\ prod' = Producer(Origin)
  /\ chan' = <<>>
  /\ cons' = IdleConsumer
  /\ UNCHANGED <<control, mem, created, outcome>>

\* The window is split before anything of it is sent; one point without a
\* shard key fails it under --on-missing-shard-key error.
ReceiveWindow ==
  /\ pc = "ingest" /\ ~cons.busy /\ chan # <<>>
  /\ ~Unroutable(Head(chan))
  /\ chan' = Tail(chan)
  /\ cons' = [IdleConsumer EXCEPT !.busy = TRUE, !.win = Head(chan), !.todo = Groups(Head(chan))]
  /\ UNCHANGED <<stores, pc, control, mem, created, prod, ingestErr, outcome, faults>>

RejectWindow ==
  /\ pc = "ingest" /\ ~cons.busy /\ chan # <<>>
  /\ Unroutable(Head(chan))
  /\ FailIngest
  /\ UNCHANGED <<stores, faults>>

\* ensure_shard_key for one of the groups' keys that the run has not created yet.
EnsureShardKey ==
  /\ pc = "ingest" /\ cons.busy
  /\ \E k \in KeysOf(cons.todo) \ created :
       /\ created' = created \cup {k}
       /\ tgt' = [tgt EXCEPT !.keys = @ \cup {k}]
  /\ UNCHANGED <<src, alias, cp, pc, control, mem, pipeline, ingestErr, outcome, faults>>

\* upsert_groups sends the next groups, at most Workers of them at a time.
IssueChunk ==
  /\ pc = "ingest" /\ cons.busy /\ ~cons.failed
  /\ KeysOf(cons.todo) \subseteq created
  /\ cons.inflight = {} /\ cons.todo # {}
  /\ \E chunk \in SUBSET cons.todo :
       /\ Cardinality(chunk) = Min({Workers, Cardinality(cons.todo)})
       /\ cons' = [cons EXCEPT !.todo = @ \ chunk, !.inflight = chunk]
  /\ UNCHANGED <<stores, pc, control, mem, created, prod, chan, ingestErr, outcome, faults>>

\* The target rejects an upsert routed to a shard key it does not have.
HasShard(g) == g.key \in Keys => g.key \in tgt.keys

UpsertDone(g) ==
  /\ pc = "ingest" /\ g \in cons.inflight /\ HasShard(g)
  /\ tgt' = [tgt EXCEPT !.pts = @ \cup g.pts]
  /\ cons' = [cons EXCEPT !.inflight = @ \ {g}]
  /\ UNCHANGED <<src, alias, cp, pc, control, mem, created, prod, chan, ingestErr,
                 outcome, faults>>

UpsertRejected(g) ==
  /\ pc = "ingest" /\ g \in cons.inflight /\ ~HasShard(g)
  /\ cons' = [cons EXCEPT !.inflight = @ \ {g}, !.failed = TRUE]
  /\ UNCHANGED <<stores, pc, control, mem, created, prod, chan, ingestErr, outcome, faults>>

\* Retries are exhausted; the points may have been written all the same.
UpsertLost(g) ==
  /\ pc = "ingest" /\ g \in cons.inflight /\ HasShard(g)
  /\ Fault
  /\ \E applied \in SUBSET g.pts : tgt' = [tgt EXCEPT !.pts = @ \cup applied]
  /\ cons' = [cons EXCEPT !.inflight = @ \ {g}, !.failed = TRUE]
  /\ UNCHANGED <<src, alias, cp, pc, control, mem, created, prod, chan, ingestErr, outcome>>

\* join_all waits for the whole chunk before the first error is returned.
FailWindow ==
  /\ pc = "ingest" /\ cons.failed /\ cons.inflight = {}
  /\ FailIngest
  /\ UNCHANGED <<stores, faults>>

Skipped(win) == {p \in WindowPoints(win) : Class[p] \in {"collision", "keyless"}}

\* Mutant: points without a shard key leave `written` but do not enter `skipped`.
CountedMissingLost(win) ==
  [mem EXCEPT !.written = @ + Cardinality(WindowPoints(win) \ Skipped(win)),
              !.skipped = @ + Cardinality({p \in WindowPoints(win) : Class[p] = "collision"}),
              !.cursor  = win.next]

Counted(win) ==
  [mem EXCEPT !.written = @ + Cardinality(WindowPoints(win) \ Skipped(win)),
              !.skipped = @ + Cardinality(Skipped(win)),
              !.cursor  = win.next]

WindowSent == cons.busy /\ cons.todo = {} /\ cons.inflight = {} /\ ~cons.failed

\* The whole window is in the target: count it and save the checkpoint.
CommitWindow ==
  /\ pc = "ingest" /\ WindowSent
  /\ mem' = Counted(cons.win)
  /\ cp' = mem'
  /\ cons' = IdleConsumer
  /\ UNCHANGED <<src, tgt, alias, pc, control, created, prod, chan, ingestErr, outcome, faults>>

\* Mutant: the optimize phase is skipped over.
FinishIngestUnrestored ==
  /\ pc = "ingest" /\ ~prod.open /\ chan = <<>> /\ ~cons.busy
  /\ mem' = [mem EXCEPT !.phase = "verify"]
  /\ cp' = mem'
  /\ Goto("decide")
  /\ UNCHANGED <<src, tgt, alias, ingestErr, faults>>

\* The source is exhausted and every window committed.
FinishIngest ==
  /\ pc = "ingest" /\ ~prod.open /\ chan = <<>> /\ ~cons.busy
  /\ mem' = [mem EXCEPT !.phase = IF opts.fast THEN "optimize" ELSE "verify"]
  /\ cp' = mem'
  /\ Goto("decide")
  /\ UNCHANGED <<src, tgt, alias, ingestErr, faults>>

-----------------------------------------------------------------------------
(* Restore, verify, cutover. *)

\* The optimizers are restored after a failed ingest too.
RestoreNeeded == opts.fast /\ mem.phase \in {"ingest", "optimize"}

Decide ==
  /\ pc = "decide"
  /\ \/ /\ RestoreNeeded
        /\ pc' = "restore"
        /\ UNCHANGED <<opts, srcCount, mem, created, pipeline, ingestErr, outcome>>
     \/ /\ ~RestoreNeeded /\ ingestErr
        /\ Halt("error")
     \/ /\ ~RestoreNeeded /\ ~ingestErr
        /\ pc' = IF mem.phase = "done" THEN "remove" ELSE mem.phase
        /\ UNCHANGED <<opts, srcCount, mem, created, pipeline, ingestErr, outcome>>
  /\ UNCHANGED <<stores, faults>>

RestoreOptimizers ==
  /\ pc = "restore"
  /\ tgt' = [tgt EXCEPT !.threshold = "original"]
  /\ mem' = [mem EXCEPT !.phase = "verify"]
  /\ Goto("saveVerify")
  /\ UNCHANGED <<src, alias, cp, ingestErr, faults>>

\* The save comes first, the ingest error is returned after it.
SaveVerify ==
  /\ pc = "saveVerify"
  /\ cp' = mem
  /\ IF ingestErr THEN Halt("error")
     ELSE /\ pc' = "verify"
          /\ UNCHANGED <<opts, srcCount, mem, created, pipeline, ingestErr, outcome>>
  /\ UNCHANGED <<src, tgt, alias, faults>>

\* Mutant: a target that holds too little passes.
CountsAtMost == Cardinality(tgt.pts) <= srcCount

CountsMatch == Cardinality(tgt.pts) = srcCount

\* The exact counts agree, or --no-verify: on to the next phase.
Verify ==
  /\ pc = "verify"
  /\ opts.verify => CountsMatch
  /\ mem' = [mem EXCEPT !.phase = IF opts.cutover THEN "cutover" ELSE "done"]
  /\ cp' = mem'
  /\ Goto(IF opts.cutover THEN "cutover" ELSE "remove")
  /\ UNCHANGED <<src, tgt, alias, ingestErr, faults>>

CountMismatch ==
  /\ pc = "verify" /\ opts.verify /\ ~CountsMatch
  /\ Halt("error")
  /\ UNCHANGED <<stores, faults>>

\* Mutant: a refused alias swap is passed over.
CutoverUnswapped ==
  /\ pc = "cutover"
  /\ alias' = alias
  /\ Goto(IF opts.drop THEN "drop" ELSE "saveDone")
  /\ UNCHANGED <<src, tgt, cp, mem, ingestErr, faults>>

\* One change_aliases batch.  A run without --cutover passes a resumed phase.
CutoverAlias ==
  /\ pc = "cutover"
  /\ alias' = IF opts.cutover THEN "target" ELSE alias
  /\ Goto(IF opts.drop THEN "drop" ELSE "saveDone")
  /\ UNCHANGED <<src, tgt, cp, mem, ingestErr, faults>>

DropSource ==
  /\ pc = "drop"
  /\ src' = [exists |-> FALSE, pts |-> {}]
  /\ Goto("saveDone")
  /\ UNCHANGED <<tgt, alias, cp, mem, ingestErr, faults>>

SaveDone ==
  /\ pc = "saveDone"
  /\ mem' = [mem EXCEPT !.phase = "done"]
  /\ cp' = mem'
  /\ Goto("remove")
  /\ UNCHANGED <<src, tgt, alias, ingestErr, faults>>

RemoveCheckpoint ==
  /\ pc = "remove"
  /\ cp' = NoCheckpoint
  /\ Halt("ok")
  /\ UNCHANGED <<src, tgt, alias, faults>>

-----------------------------------------------------------------------------
(* Failures of the process's own calls. *)

\* A read that fails before the checkpoint is loaded: nothing has changed yet.
FailStart(o) ==
  /\ pc = "idle"
  /\ Fault
  /\ opts' = o
  /\ outcome' = "error"
  /\ UNCHANGED <<stores, pc, mem, srcCount, created, pipeline, ingestErr>>

\* A failed call outside the ingest block: the `?` ends the run.  The target
\* may have served a call whose answer was lost.
FailStep ==
  /\ Fault
  /\ Halt("error")
  /\ \/ /\ pc \in {"schema", "create", "indexes", "saveIngest", "restore", "saveVerify",
                   "verify", "cutover", "drop", "saveDone", "remove"}
        /\ UNCHANGED stores
     \/ /\ pc = "schema" /\ opts.recreate /\ tgt.exists
        /\ tgt' = NoTarget
        /\ alias' = IF alias = "target" THEN "none" ELSE alias
        /\ UNCHANGED <<src, cp>>
     \/ /\ pc = "create" \/ (pc = "schema" /\ ~tgt.exists)
        /\ tgt' = [exists |-> TRUE, pts |-> {}, keys |-> {},
                   threshold |-> IF opts.fast THEN "bulk" ELSE "original"]
        /\ UNCHANGED <<src, alias, cp>>
     \/ /\ pc = "indexes"
        /\ \E some \in SUBSET created : tgt' = [tgt EXCEPT !.keys = @ \cup some]
        /\ UNCHANGED <<src, alias, cp>>
     \/ /\ pc = "restore"
        /\ tgt' = [tgt EXCEPT !.threshold = "original"]
        /\ UNCHANGED <<src, alias, cp>>
     \/ /\ pc = "cutover" /\ opts.cutover
        /\ alias' = "target"
        /\ UNCHANGED <<src, tgt, cp>>
     \/ /\ pc = "drop"
        /\ src' = [exists |-> FALSE, pts |-> {}]
        /\ UNCHANGED <<tgt, alias, cp>>

\* A failed scroll, a failed CREATE SHARD KEY, or Ctrl+C.  An upsert that is
\* dropped in flight may have been served: then UpsertDone came first.
InterruptIngest ==
  /\ pc = "ingest"
  /\ Fault
  /\ FailIngest
  /\ UNCHANGED stores

\* A checkpoint save that fails inside the ingest block: mem has moved on.
LoseWindowSave ==
  /\ pc = "ingest" /\ WindowSent
  /\ Fault
  /\ mem' = Counted(cons.win)
  /\ pc' = "decide"
  /\ ingestErr' = TRUE
  /\ prod' = Producer(Origin)
  /\ chan' = <<>>
  /\ cons' = IdleConsumer
  /\ UNCHANGED <<stores, control, created, outcome>>

LoseIngestSave ==
  /\ pc = "ingest" /\ ~prod.open /\ chan = <<>> /\ ~cons.busy
  /\ Fault
  /\ mem' = [mem EXCEPT !.phase = IF opts.fast THEN "optimize" ELSE "verify"]
  /\ ingestErr' = TRUE
  /\ Goto("decide")
  /\ UNCHANGED stores

-----------------------------------------------------------------------------
(* The specification. *)

Produce == FetchPage \/ SendWindow \/ CloseChannel

Upsert(g) == UpsertDone(g) \/ UpsertRejected(g)

Consume ==
  \/ ReceiveWindow \/ RejectWindow \/ EnsureShardKey \/ IssueChunk
  \/ \E g \in cons.inflight : Upsert(g)
  \/ FailWindow \/ CommitWindow \/ FinishIngest

Sequence ==
  \/ DropTarget \/ CreateTarget \/ KeepTarget \/ CreateShardKeys \/ SaveIngest
  \/ Decide \/ RestoreOptimizers \/ SaveVerify \/ Verify \/ CountMismatch
  \/ CutoverAlias \/ DropSource \/ SaveDone \/ RemoveCheckpoint

Operator == \E o \in Options : StartFresh(o) \/ StartResumed(o) \/ StartRefused(o)

Failure ==
  \/ \E o \in Options : FailStart(o)
  \/ Crash \/ FailStep \/ InterruptIngest \/ LoseWindowSave \/ LoseIngestSave
  \/ \E g \in cons.inflight : UpsertLost(g)

Next ==
  \/ Operator \/ Sequence \/ Produce \/ Consume \/ Failure
  \/ \E p \in Late : WriteSource(p)

Spec == Init /\ [][Next]_vars

\* The tasks of a running process are scheduled; after runs that did not succeed
\* the operator at last gives a command that is not refused, if there is one.
Rerun == outcome # "ok" /\ \E o \in Options : StartFresh(o) \/ StartResumed(o)

Fairness == WF_vars(Sequence) /\ WF_vars(Produce) /\ WF_vars(Consume) /\ WF_vars(Rerun)

FairSpec == Spec /\ Fairness

-----------------------------------------------------------------------------
(* Properties. *)

\* The points a migration promises to copy: those the source held from the
\* start and that are neither skipped nor rejected.
Wanted == {p \in Initial : Class[p] \in Keys \cup {"unsharded"}}

\* A saved cursor never runs ahead of the target: every wanted point up to it
\* has been written, whatever was lost, retried or re-created in between.
\* A resumed run scrolls from the cursor on (ScrollPages::resume).
CursorCovered ==
  cp.phase # "none" => \A p \in Wanted : p <= cp.cursor => p \in tgt.pts

\* The alias is only ever swapped to a target that holds every wanted point
\* ("Zero-downtime alias cutover after a successful migrate", cutover.rs).
CutoverComplete == alias = "target" => Wanted \subseteq tgt.pts

\* No sequence of runs, failures and restarts loses a wanted point: it is in
\* the source or in the target at every moment (--drop-source-after-cutover).
NothingLost == Wanted \subseteq src.pts \cup tgt.pts

\* Once a checkpoint is past the optimize phase the target's optimizer
\* threshold is no longer the bulk one, and no later run sets it again
\* (suppress_indexing, restore_optimizers).
RestoredBeforeVerify ==
  cp.phase \in {"verify", "cutover", "done"} => tgt.threshold # "bulk"

\* The saved counters never fall short of the points the cursor has passed:
\* each is written or skipped (window_totals, `missing` moved to skipped).
CountersCover ==
  cp.phase # "none" =>
    cp.written + cp.skipped >= Cardinality({p \in Initial : p <= cp.cursor})

\* A run goes by its own list of the keys it has created (created_keys), which a
\* resumed run takes from the source: an upsert may meet a missing shard key only
\* if no point had that key when the migration began.
StartingKeysExist ==
  \A g \in cons.inflight : HasShard(g) \/ g.key \notin {Class[p] : p \in Initial}

\* A checkpoint only moves forward, phase by phase and point by point, until
\* it is removed: by --restart, or by the run that finished.
Rank == [ingest |-> 1, optimize |-> 2, verify |-> 3, cutover |-> 4, done |-> 5]

CheckpointForward ==
  [][ cp.phase # "none" /\ cp'.phase # "none" =>
        cp'.cursor >= cp.cursor /\ Rank[cp'.phase] >= Rank[cp.phase] ]_vars

\* The migration implements its contract (MigrateContract): no step of any run
\* empties, swaps or drops a collection at the wrong moment.
Contract == INSTANCE MigrateContract WITH
  source <- src.pts \cap Wanted, target <- tgt.pts \cap Wanted, swapped <- alias = "target"

Migrates == Contract!Spec

\* The two ends that no command without --restart leads on from: a checkpoint in
\* phase verify beside counts that differ, which a failed fast-bulk ingest leaves
\* as well as a source that was written to, and a source that was dropped when
\* nothing had stored that yet.
Uncountable == cp.phase = "verify" /\ Cardinality(tgt.pts) # Cardinality(src.pts)
SourceGone == ~src.exists /\ cp.phase # "none" /\ Wanted \subseteq tgt.pts
DeadEnd == pc = "idle" /\ (Uncountable \/ SourceGone)

\* With an operator who runs the command again and failures that end, the
\* migration finishes or is at one of those two ends: neither half of the pipeline
\* waits for the other for ever, and every other checkpoint leads on.
Completes == <>(outcome = "ok" \/ DeadEnd)

(* What the repository says of the program; a run refutes it. *)

\* "Ctrl+C stops ingest, still restores optimizer threshold, and re-running
\* resumes from the cursor" (skills/qql-skill/references/convert-migration.md):
\* while wanted points are missing, a stored checkpoint resumes the ingest.
InterruptedRunResumes ==
  cp.phase \notin {"none", "ingest"} => Wanted \subseteq tgt.pts
=============================================================================
