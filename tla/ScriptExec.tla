----------------------------- MODULE ScriptExec -----------------------------
(***************************************************************************)
(* Executor::execute_batch_nodes: run the statements of a script, grouping *)
(* neighbours with the same batch key into one request                     *)
(* (crates/qql-runtime/src/executor/batch.rs, crates/qql-plan/src/batch.rs).*)
(*                                                                         *)
(* One task takes statement after statement, prepares and plans each and   *)
(* hands it to the BatchGrouper.  The server applies the operations of a   *)
(* request one by one; its answer can get lost, and what is left of a lost *)
(* request may still reach it later.                                       *)
(***************************************************************************)
EXTENDS Integers, FiniteSets, Sequences, SequencesExt

CONSTANTS
  Points,    \* point ids
  Values,    \* payload values
  Scripts,   \* the scripts that may be run
  MaxFaults  \* bound on lost answers, failed preparations and timeouts

NoKey  == "none"    \* the batch key of a statement that is never grouped
Absent == "absent"

\* put, insert (UPDATE MODE insert_only), assign (SET PAYLOAD) and delete name
\* one point; purge is a DELETE by payload value.
Effects ==
  [kind : {"read", "put", "insert", "assign", "delete", "purge"}, id : Points, val : Values]

\* Classes of statements on one collection: queries; writes with and without
\* WAIT; text UPSERTs that get their embedding, and with it WAIT, when they are
\* prepared; explicit BATCH blocks; and the rest, which is never grouped.
\* bad says how a statement is rejected.
Statements ==
  [class : {"query", "waited", "unwaited", "implicit", "block", "other"},
   ops : Seq(Effects), bad : {"no", "bind", "plan"}]

\* statement_batch_key: the key of the parsed statement.
StatementKey(s) ==
  CASE s.class = "implicit" -> "unwaited" [] s.class \in {"block", "other"} -> NoKey
    [] OTHER -> s.class

\* PlannedOperation::batch_key: the key of the prepared and planned one.
PlannedKey(s) == IF s.class = "implicit" THEN "waited" ELSE StatementKey(s)

Keys == {"query", "waited", "unwaited", NoKey}

ASSUME ScriptAssumption ==
  /\ Absent \notin Values
  /\ \A script \in Scripts :
       /\ script \in Seq(Statements)
       /\ \A i \in DOMAIN script :
            LET s == script[i] IN
            /\ s.ops # <<>>
            /\ s.class # "block" => Len(s.ops) = 1
  /\ MaxFaults \in Nat

VARIABLES
  script,     \* the statements
  mode,       \* on_error: "stop" or "continue"
  pc,         \* where execute_batch_nodes_inner is
  pos,        \* the statement it is at
  pending,    \* BatchGrouper.pending: planned operations not sent yet
  pendingKey, \* BatchGrouper.pending_key
  work,       \* what is to be sent or reported before it goes on
  wire,       \* the request that is under way, and what is left of it
  results,    \* the responses collected so far
  log,        \* the operations the server applied, in order
  late,       \* what is left of requests that were given up
  straggled,  \* something of them has arrived
  faults      \* faults so far

server  == <<log, late, straggled>>
grouper == <<pending, pendingKey>>
vars    == <<script, mode, pc, pos, pending, pendingKey, work, wire, results, log, late,
             straggled, faults>>

-----------------------------------------------------------------------------
(* Operations: member j of statement i is <<i, j>>. *)

OpsOf(i) == [j \in DOMAIN script[i].ops |-> <<i, j>>]

Order == FlattenSeq([i \in DOMAIN script |-> OpsOf(i)])

Ops == UNION {ToSet(OpsOf(i)) : i \in DOMAIN script}

Effect(x) == script[x[1]].ops[x[2]]

\* ~retry_is_safe: an upsert with a guard.
Conditional(x) == Effect(x).kind = "insert"

\* A request: one operation, or a batch; or a failure to report.
Jobs == [kind : {"single", "batch", "failure"}, ops : Seq(Ops)]

Single(x)    == [kind |-> "single", ops |-> <<x>>]
Batch(xs)    == [kind |-> "batch", ops |-> xs]
Failure(xs)  == [kind |-> "failure", ops |-> xs]

Quiet == [sent |-> FALSE, left |-> <<>>]

Response(xs, ok) == [ops |-> xs, ok |-> ok]
EachAlone(xs, ok) == [j \in DOMAIN xs |-> Response(<<xs[j]>>, ok)]

TypeOK ==
  /\ script \in Scripts /\ mode \in {"stop", "continue"}
  /\ pc \in {"next", "prepare", "done", "error"}
  /\ pos \in 0..Len(script)
  /\ pending \in Seq(Ops) /\ pendingKey \in Keys
  /\ pending = <<>> <=> pendingKey = NoKey
  /\ work \in Seq(Jobs)
  /\ wire \in [sent : BOOLEAN, left : Seq(Ops)]
  /\ results \in Seq([ops : Seq(Ops), ok : BOOLEAN])
  /\ log \in Seq(Ops) /\ late \subseteq Seq(Ops)
  /\ straggled \in BOOLEAN
  /\ faults \in 0..MaxFaults

Init ==
  /\ script \in Scripts /\ mode \in {"stop", "continue"}
  /\ pc = "next" /\ pos = 0
  /\ pending = <<>> /\ pendingKey = NoKey
  /\ work = <<>> /\ wire = Quiet
  /\ results = <<>>
  /\ log = <<>> /\ late = {} /\ straggled = FALSE
  /\ faults = 0

-----------------------------------------------------------------------------
(* Statement by statement: barrier, prepare, plan, push. *)

Ready(step) == pc = step /\ work = <<>>

Fault == faults < MaxFaults /\ faults' = faults + 1

\* flush_planned_group: a lone operation is dispatched, more are sent as a batch.
Flush ==
  IF pending = <<>> THEN <<>>
  ELSE IF Len(pending) = 1 THEN <<Single(pending[1])>> ELSE <<Batch(pending)>>

\* Mutant: the group is taken and its key left behind.
KeepKey == pending' = <<>> /\ UNCHANGED pendingKey

ClearGrouper == pending' = <<>> /\ pendingKey' = NoKey

\* Mutant: a rejected statement is reported before the group that precedes it.
RejectAtOnce(i) ==
  /\ work' = <<Failure(OpsOf(i))>> \o Flush
  /\ ClearGrouper
  /\ pc' = "next"

\* flush_on_error: what precedes a rejected statement is sent before the report.
Reject(i) ==
  /\ work' = Flush \o <<Failure(OpsOf(i))>>
  /\ ClearGrouper
  /\ pc' = "next"

\* A parse error in a list of queries, or a parameter that was never bound.
RejectUnbound ==
  /\ Ready("next") /\ pos < Len(script) /\ script[pos + 1].bad = "bind"
  /\ pos' = pos + 1
  /\ Reject(pos + 1)
  /\ UNCHANGED <<script, mode, wire, results, server, faults>>

\* Mutant: pending operations wait however the next statement is keyed.
PassNoBarrier ==
  /\ Ready("next") /\ pos < Len(script) /\ script[pos + 1].bad # "bind"
  /\ pos' = pos + 1
  /\ pc' = "prepare"
  /\ UNCHANGED <<grouper, work>>
  /\ UNCHANGED <<script, mode, wire, results, server, faults>>

\* check_statement_barrier: another key flushes before the statement is prepared.
PassBarrier ==
  /\ Ready("next") /\ pos < Len(script) /\ script[pos + 1].bad # "bind"
  /\ pos' = pos + 1
  /\ pc' = "prepare"
  /\ IF StatementKey(script[pos + 1]) = pendingKey
     THEN UNCHANGED <<grouper, work>>
     ELSE work' = Flush /\ ClearGrouper
  /\ UNCHANGED <<script, mode, wire, results, server, faults>>

\* Preparation calls the backend and the embedder, and may fail.
FailPrepare ==
  /\ Ready("prepare")
  /\ Fault
  /\ Reject(pos)
  /\ UNCHANGED <<script, mode, pos, wire, results, server>>

FailPlan ==
  /\ Ready("prepare") /\ script[pos].bad = "plan"
  /\ Reject(pos)
  /\ UNCHANGED <<script, mode, pos, wire, results, server, faults>>

\* push_planned: join the pending group, start a new one, or go alone.
Push ==
  /\ Ready("prepare") /\ script[pos].bad = "no"
  /\ LET key == PlannedKey(script[pos]) IN
     \/ /\ key = NoKey
        /\ work' = Append(Flush, IF script[pos].class = "block" THEN Batch(OpsOf(pos))
                                ELSE Single(<<pos, 1>>))
        /\ ClearGrouper
     \/ /\ key # NoKey /\ pending # <<>> /\ key # pendingKey
        /\ work' = Flush
        /\ pending' = OpsOf(pos) /\ pendingKey' = key
     \/ /\ key # NoKey /\ (pending = <<>> \/ key = pendingKey)
        /\ work' = work
        /\ pending' = pending \o OpsOf(pos) /\ pendingKey' = key
  /\ pc' = "next"
  /\ UNCHANGED <<script, mode, pos, wire, results, server, faults>>

\* The end of the script: the last group is flushed, then the call returns.
Finish ==
  /\ Ready("next") /\ pos = Len(script)
  /\ work' = Flush
  /\ ClearGrouper
  /\ pc' = IF pending = <<>> THEN "done" ELSE "next"
  /\ UNCHANGED <<script, mode, pos, wire, results, server, faults>>

-----------------------------------------------------------------------------
(* The work at hand: requests and reports. *)

NextIs(kinds) == work # <<>> /\ Head(work).kind \in kinds

\* The call ends with an error and drops the results.
EndWithError == pc' = "error" /\ work' = <<>> /\ ClearGrouper

\* A failed response, or the end of the call under OnError::Stop.
Report ==
  /\ NextIs({"failure"})
  /\ \/ /\ mode = "stop"
        /\ EndWithError
        /\ UNCHANGED results
     \/ /\ mode = "continue"
        /\ results' = Append(results, Response(Head(work).ops, FALSE))
        /\ work' = Tail(work)
        /\ UNCHANGED <<grouper, pc>>
  /\ UNCHANGED <<script, mode, pos, wire, server, faults>>

Send ==
  /\ NextIs({"single", "batch"}) /\ ~wire.sent
  /\ wire' = [sent |-> TRUE, left |-> Head(work).ops]
  /\ UNCHANGED <<script, mode, pc, pos, grouper, work, results, server, faults>>

ServerApplies ==
  /\ wire.left # <<>>
  /\ log' = Append(log, Head(wire.left))
  /\ wire' = [wire EXCEPT !.left = Tail(@)]
  /\ UNCHANGED <<script, mode, pc, pos, grouper, work, results, late, straggled, faults>>

Answered ==
  /\ wire.sent /\ wire.left = <<>>
  /\ results' = results \o EachAlone(Head(work).ops, TRUE)
  /\ work' = Tail(work)
  /\ wire' = Quiet
  /\ UNCHANGED <<script, mode, pc, pos, grouper, server, faults>>

\* The answer has another number of items: nothing is sent again.
Miscounted ==
  /\ wire.sent /\ NextIs({"batch"})
  /\ Fault
  /\ wire' = Quiet
  /\ \/ /\ mode = "stop"
        /\ EndWithError
        /\ UNCHANGED results
     \/ /\ mode = "continue"
        /\ results' = results \o EachAlone(Head(work).ops, FALSE)
        /\ work' = Tail(work)
        /\ UNCHANGED <<grouper, pc>>
  /\ UNCHANGED <<script, mode, pos, server>>

\* Mutants: a conditional member is sent again like the others, or left out;
\* the members are sent again from the last to the first.
RetryAll(xs) == [j \in DOMAIN xs |-> Single(xs[j])]
RetrySafe(xs) == RetryAll(SelectSeq(xs, LAMBDA x : ~Conditional(x)))
RetryBackwards(xs) == RetryAll(Reverse(xs))

\* Each member on its own, and a conditional one not at all.
Retries(xs) ==
  [j \in DOMAIN xs |-> IF Conditional(xs[j]) THEN Failure(<<xs[j]>>) ELSE Single(xs[j])]

GiveUp == late' = late \cup ({wire.left} \ {<<>>}) /\ wire' = Quiet

\* An error instead of an answer, whatever the server did or has yet to do.
Lost ==
  /\ wire.sent
  /\ Fault
  /\ GiveUp
  /\ \/ /\ mode = "stop"
        /\ EndWithError
        /\ UNCHANGED results
     \/ /\ mode = "continue" /\ NextIs({"single"})
        /\ results' = Append(results, Response(Head(work).ops, FALSE))
        /\ work' = Tail(work)
        /\ UNCHANGED <<grouper, pc>>
     \/ /\ mode = "continue" /\ NextIs({"batch"})
        /\ work' = Retries(Head(work).ops) \o Tail(work)
        /\ UNCHANGED <<grouper, pc, results>>
  /\ UNCHANGED <<script, mode, pos, log, straggled>>

\* with_timeout drops the whole call wherever it is.
Timeout ==
  /\ pc \in {"next", "prepare"}
  /\ Fault
  /\ GiveUp
  /\ EndWithError
  /\ UNCHANGED <<script, mode, pos, results, log, straggled>>

\* The server gets to an operation of a request that was given up.
Straggle ==
  /\ \E xs \in late :
       /\ log' = Append(log, Head(xs))
       /\ late' = (late \ {xs}) \cup ({Tail(xs)} \ {<<>>})
  /\ straggled' = TRUE
  /\ UNCHANGED <<script, mode, pc, pos, grouper, work, wire, results, faults>>

\* The call has returned: nothing more happens here.
Returned == pc \in {"done", "error"} /\ UNCHANGED vars

Next ==
  \/ RejectUnbound \/ PassBarrier \/ FailPrepare \/ FailPlan \/ Push \/ Finish
  \/ Report \/ Send \/ ServerApplies \/ Answered \/ Miscounted \/ Lost
  \/ Timeout \/ Straggle \/ Returned

Spec == Init /\ [][Next]_vars

-----------------------------------------------------------------------------
(* Properties. *)

\* The operations a list of responses, or of requests, is about.
Held(list) == UNION {ToSet(list[k].ops) : k \in DOMAIN list}

Answers == Held(results)

\* The order of the script: by statement, and by member within a block.
Precedes(x, y) == x[1] < y[1] \/ (x[1] = y[1] /\ x[2] < y[2])
AllBefore(A, B) == \A x \in A, y \in B : Precedes(x, y)

InOrder(xs) == \A i, j \in DOMAIN xs : i < j => Precedes(xs[i], xs[j])

Ordered(list) ==
  \A k \in DOMAIN list :
    /\ InOrder(list[k].ops)
    /\ \A l \in DOMAIN list : k < l => AllBefore(ToSet(list[k].ops), ToSet(list[l].ops))

\* A call that returns its results has an answer for every operation, in script
\* order and none twice, rejected statements, lost batches and retries included.
OneAnswerEach == pc = "done" => Ordered(results) /\ Answers = Ops

Before(x) == {y \in Ops : y[1] < x[1]}

\* A statement is prepared, which may read or change the backend, only when
\* every earlier operation outside its own batch has been answered
\* (check_statement_barrier).
PreparedBehindBarrier ==
  Ready("prepare") =>
    \A y \in Before(<<pos, 1>>) :
      \/ y \in Answers
      \/ y \in ToSet(pending) /\ PlannedKey(script[y[1]]) = StatementKey(script[pos])

\* A rejected statement does not take the ones before it down with it: when it
\* is reported, and under OnError::Stop ends the call, they have all been
\* answered (flush_on_error).
RejectedLast ==
  NextIs({"failure"}) => Before(Head(work).ops[1]) \subseteq Answers

\* What the caller is told of an operation.
Told ==
  [x \in Ops |->
     IF \E r \in ToSet(results) : ~r.ok /\ x \in ToSet(r.ops) THEN "failed"
     ELSE IF x \in Answers THEN "ok" ELSE "open"]

Earlier == [x \in Ops |-> {y \in Ops : Precedes(y, x)}]

\* The executor keeps the contract of ScriptContract: grouping, retries and
\* stragglers neither reorder operations nor repeat a conditional one.
Contract == INSTANCE ScriptContract WITH
  earlier <- Earlier, conditional <- {x \in Ops : Conditional(x)}, answer <- Told

KeepsContract == Contract!Spec

-----------------------------------------------------------------------------
(* The data: what a sequence of operations leaves behind. *)

Apply(store, op) ==
  CASE op.kind = "put" -> [store EXCEPT ![op.id] = op.val]
    [] op.kind = "insert" /\ store[op.id] = Absent -> [store EXCEPT ![op.id] = op.val]
    [] op.kind = "assign" /\ store[op.id] # Absent -> [store EXCEPT ![op.id] = op.val]
    [] op.kind = "delete" -> [store EXCEPT ![op.id] = Absent]
    [] op.kind = "purge" -> [p \in Points |-> IF store[p] = op.val THEN Absent ELSE store[p]]
    [] OTHER -> store

\* The store before the first effect and after each.
Run(store, effects) ==
  LET run[n \in 0..Len(effects)] ==
        IF n = 0 THEN store ELSE Apply(run[n - 1], effects[n])
  IN run

After(store, effects) == Run(store, effects)[Len(effects)]

Empty == [p \in Points |-> Absent]

EffectsOf(xs) == [i \in DOMAIN xs |-> Effect(xs[i])]

Store(xs) == After(Empty, EffectsOf(xs))

AllOk == pc = "done" /\ (\A r \in ToSet(results) : r.ok) /\ ~straggled

ById == \A x \in Ops : Effect(x).kind # "purge"

\* When every operation names its points and is answered ok, the store is what
\* running the statements one by one would leave, however many batches were
\* lost and sent again member by member.
SameAsSequential == AllOk /\ ById => Store(log) = Store(Order)
=============================================================================
