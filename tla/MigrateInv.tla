----------------------------- MODULE MigrateInv -----------------------------
(***************************************************************************)
(* The inductive invariant of Migrate, in named parts: what each phase of  *)
(* a run may rely on.  TLC checks it on small instances (MCMigrate) and    *)
(* MigrateProofs proves it for every value of the constants.               *)
(***************************************************************************)
EXTENDS Migrate

-----------------------------------------------------------------------------
(* Where the process is, and what it then holds. *)

SchemaSteps == {"schema", "create", "indexes", "saveIngest"}

AfterIngest == {"optimize", "verify", "cutover", "done"}

\* Until the first save there is no checkpoint and nothing has been streamed.
SchemaInv ==
  pc \in SchemaSteps =>
    /\ cp.phase = "none" /\ mem.cursor = Origin
    /\ mem.phase = IF pc = "saveIngest" THEN "ingest" ELSE "schema"
    /\ prod = Producer(Origin)

\* Outside the ingest the channel is empty and the consumer has nothing.
QuietInv ==
  /\ pc # "ingest" => chan = <<>> /\ cons = IdleConsumer
  /\ ~cons.busy => cons = IdleConsumer

\* The in-memory phase agrees with the step, and --no-fast-bulk with both.
PhaseInv ==
  /\ pc = "idle" => mem = NoCheckpoint
  /\ pc = "ingest" => mem.phase = "ingest"
  /\ pc = "decide" /\ ~ingestErr => mem.phase \in AfterIngest
  /\ pc = "restore" => mem.phase \in {"ingest", "optimize"}
  /\ pc \in {"saveVerify", "verify"} => mem.phase = "verify"
  /\ pc \in {"cutover", "drop", "saveDone"} => mem.phase = "cutover"
  /\ pc = "remove" => mem.phase = "done"
  /\ pc # "idle" => mem.fast = opts.fast
  /\ mem.phase = "optimize" => mem.fast
  /\ cp.phase = "optimize" => cp.fast

ControlInv == SchemaInv /\ QuietInv /\ PhaseInv

-----------------------------------------------------------------------------
(* The pipeline: window by window, no point falls between. *)

\* The window holds every starting point between lo and its own cursor.
Seg(lo, win) == \A p \in Initial : lo < p /\ p <= win.next => p \in WindowPoints(win)

\* The cursor before the i-th window of the channel, and before the producer's.
ChanFrom == IF cons.busy THEN cons.win.next ELSE mem.cursor
Before(i) == IF i = 1 THEN ChanFrom ELSE chan[i - 1].next
ProdFrom == Before(Len(chan) + 1)

PipelineInv ==
  pc = "ingest" =>
    /\ cons.busy => Seg(mem.cursor, cons.win)
    /\ \A i \in 1..Len(chan) : Seg(Before(i), chan[i])
    /\ Seg(ProdFrom, prod.win)
    /\ prod.win.next = prod.stream.after
    /\ prod.stream.done => \A p \in Initial : p <= prod.stream.after
    /\ ~prod.open => prod.stream.done /\ prod.win.pages = <<>>

\* A wanted point of the consumer's window is written or still to be sent.
SentInv ==
  pc = "ingest" /\ cons.busy /\ ~cons.failed =>
    \A p \in Wanted \cap WindowPoints(cons.win) :
      p \in tgt.pts \/ \E g \in cons.todo \cup cons.inflight : p \in g.pts

\* The source is whole while it exists, and it exists until it is dropped.
SourceInv ==
  /\ src.exists => Initial \subseteq src.pts
  /\ pc \in SchemaSteps \cup {"ingest"} => src.exists

\* The cursor in memory is covered too.
MemCovered == \A p \in Wanted : p <= mem.cursor => p \in tgt.pts

CoverInv == PipelineInv /\ SentInv /\ SourceInv /\ MemCovered /\ CursorCovered

-----------------------------------------------------------------------------
(* What a full target takes: an ingest that was seen through, or counts    *)
(* that agree.                                                             *)

\* The target holds no points that are not the source's before the first run.
OwnPoints == TRUE \in Existing => Foreign \subseteq Initial

\* No run is fast, or every fast run verifies the counts, which then tell a
\* complete target from one that an interrupted ingest has left.
BulkIsVerified ==
  \/ \A o \in Options : ~o.fast
  \/ OwnPoints /\ \A o \in Options : o.fast => o.verify

\* A checkpoint that stands for a full target.  A fast one at verify does not: an
\* interrupted ingest stores it too.
Complete(c) == c.phase \in {"optimize", "cutover", "done"} \/ (c.phase = "verify" /\ ~c.fast)

CompleteInv ==
  /\ Complete(mem) \/ Complete(cp) \/ ~src.exists => Wanted \subseteq tgt.pts
  /\ pc \in {"restore", "saveVerify"} => mem.fast

\* Nothing gets into the target, or on its way there, that the source does not hold.
CopiedInv ==
  OwnPoints /\ src.exists =>
    /\ tgt.pts \subseteq src.pts
    /\ WindowPoints(prod.win) \subseteq src.pts
    /\ \A i \in DOMAIN chan : WindowPoints(chan[i]) \subseteq src.pts
    /\ \A g \in cons.todo \cup cons.inflight : g.pts \subseteq src.pts

\* A run about to verify has seen the ingest through, or has counted a source that
\* held the whole target; points written since are in neither.
CountedInv ==
  (pc \in {"decide", "restore", "saveVerify"} /\ ~ingestErr) \/ pc = "verify" =>
    \/ Wanted \subseteq tgt.pts
    \/ \E counted \in SUBSET Points :
         Wanted \subseteq counted /\ tgt.pts \subseteq counted /\ srcCount = Cardinality(counted)

\* The alias is never left on a target that is gone or emptied, and the source
\* is only dropped after the swap.
AliasInv ==
  /\ pc = "drop" => alias = "target"
  /\ alias = "target" => tgt.exists
  /\ pc = "create" => ~tgt.exists
  /\ cp.phase # "none" \/ pc \notin {"idle", "schema", "create"} => tgt.exists

-----------------------------------------------------------------------------
(* What the checkpoint says of the run, and the run of its checkpoint. *)

\* The cursors of the pipeline's windows come in order.
OrderInv ==
  pc = "ingest" =>
    /\ cons.busy => mem.cursor <= cons.win.next
    /\ \A i \in 1..Len(chan) : Before(i) <= chan[i].next
    /\ ProdFrom <= prod.win.next

\* The saved checkpoint trails the one in memory, in phase and in cursor.
TrailInv ==
  pc # "idle" /\ cp.phase # "none" =>
    /\ mem.phase \in SavedPhases
    /\ mem.cursor >= cp.cursor /\ Rank[mem.phase] >= Rank[cp.phase]

\* The counters in memory cover the points the cursor in memory has passed.
MemCounted ==
  mem.written + mem.skipped >= Cardinality({p \in Initial : p <= mem.cursor})

ProgressInv == OrderInv /\ TrailInv /\ MemCounted /\ CountersCover

-----------------------------------------------------------------------------
(* The target's shard keys and its optimizer threshold. *)

StartingKeys == {Class[p] : p \in Initial} \cap Keys

\* The keys of the starting points: first on the run's list, then in the target.
KeysInv ==
  /\ pc \in {"schema", "create", "indexes"} => StartingKeys \subseteq created
  /\ pc \notin {"idle", "schema", "create", "indexes"} \/ cp.phase # "none"
       => StartingKeys \subseteq tgt.keys

\* A run that does not suppress indexing never finds a target that a fast run
\* has left suppressed: no run is fast, or those that are not re-create the
\* target or only --resume (a checkpoint of their own kind).
BulkIsUndone ==
  \/ \A o \in Options : ~o.fast
  \/ \A o \in Options : o.fast \/ o.recreate \/ o.resume

\* Only a fast run that has not reached its restore leaves the bulk threshold.
ThresholdInv ==
  /\ (\A o \in Options : ~o.fast) => tgt.threshold # "bulk"
  /\ pc \in SchemaSteps => ~opts.resume
  /\ pc \notin {"idle", "schema", "create"} /\ ~mem.fast => tgt.threshold # "bulk"
  /\ cp.phase # "none" /\ ~cp.fast => tgt.threshold # "bulk"
  /\ mem.phase \in {"verify", "cutover", "done"} => tgt.threshold # "bulk"
  /\ RestoredBeforeVerify

-----------------------------------------------------------------------------
(* The strengthened invariants. *)

\* For every set of options.
Inv == TypeOK /\ ControlInv /\ CoverInv

\* For options that are BulkIsVerified.  Every part of it is used: a run relies on
\* all of them when it resumes, verifies, cuts over and drops the source
\* (migrate_collection from load_or_init on).
FullInv == Inv /\ CompleteInv /\ CopiedInv /\ CountedInv /\ AliasInv /\ CutoverComplete
=============================================================================
