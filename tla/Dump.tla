-------------------------------- MODULE Dump --------------------------------
(***************************************************************************)
(* `qql dump` (crates/qql-cli/src/dump): one collection is written, shard  *)
(* by shard and page by page, to a temporary file that takes the place of  *)
(* the output only when it is complete.  The collection is written to      *)
(* meanwhile, any call may fail, and the process may be killed between     *)
(* any two steps and started again.                                        *)
(***************************************************************************)
EXTENDS ScrollPages, Sequences, SequencesExt

CONSTANTS
    Keys,       \* custom shard keys
    NoKey,      \* no shard key: the one stream of an auto-sharded collection
    Absent,     \* the shard of a point that does not exist
    Odd,        \* points point_to_upsert_object cannot write
    MaxWrites,  \* bound on writes to the collection during a run
    MaxRuns,    \* bound on runs of the command
    MaxFaults   \* bound on failing calls and kills, but for failing removals

ASSUME DumpAssumption ==
    /\ IsFiniteSet(Keys)
    /\ NoKey \notin Keys /\ Absent \notin Keys \cup {NoKey}
    /\ Odd \subseteq Points
    /\ MaxWrites \in Nat /\ MaxRuns \in Nat /\ MaxFaults \in Nat

VARIABLES
    shardOf,    \* the collection: the shard of every point
    keys,       \* its shard keys
    pc,         \* where the run is
    todo,       \* shards still to scroll, the current one first
    stream,     \* ScrollPages of the current shard
    tmp,        \* the temporary file
    out,        \* the file at output_path
    writes,     \* writes during this run
    runs,       \* runs so far
    faults,     \* faults so far
    stayed,     \* history: points that never left their shard in this run
    seen        \* history: <<shard, point>> pairs that existed in this run

source == <<shardOf, keys>>
history == <<stayed, seen>>
vars == <<source, pc, todo, stream, tmp, out, writes, runs, faults, history>>

Shards == Keys \cup {NoKey}
Existing == {p \in Points : shardOf[p] # Absent}

\* A file: what is in it, and whether it is the whole of a script.
File(is, ks, batches) == [is |-> is, keys |-> ks, batches |-> batches]
NoFile == File("none", {}, <<>>)
OldFile == File("whole", {}, <<>>)

Batches == Seq([shard : Shards, points : SUBSET Points])
Files == [is : {"none", "part", "whole"}, keys : SUBSET Keys, batches : Batches]

Active == {"check", "create", "list", "pages", "flush", "rename", "copy", "fill", "unlink"}

TypeOK ==
    /\ keys \subseteq Keys
    /\ shardOf \in [Points -> Keys \cup {NoKey, Absent}]
    /\ pc \in Active \cup {"idle", "done", "failed", "killed"}
    /\ todo \in Seq(Shards) /\ stream \in Streams
    /\ tmp \in Files /\ out \in Files
    /\ writes \in 0..MaxWrites /\ runs \in 0..MaxRuns /\ faults \in 0..MaxFaults
    /\ stayed \subseteq Points /\ seen \subseteq (Shards \X Points)

\* Points live under a key of a custom-sharded collection, or under none.
Init ==
    /\ keys \in {{}, Keys}
    /\ shardOf \in [Points -> (IF keys = {} THEN {NoKey} ELSE keys) \cup {Absent}]
    /\ pc = "idle" /\ todo = <<>> /\ stream = OpenAt(Origin)
    /\ tmp = NoFile /\ out \in {NoFile, OldFile}
    /\ writes = 0 /\ runs = 0 /\ faults = 0
    /\ stayed = {} /\ seen = {}

-----------------------------------------------------------------------------
Fault == faults < MaxFaults /\ faults' = faults + 1

\* The run goes on; nothing but the file and the streams is its own.
Goto(place) ==
    /\ pc' = place
    /\ UNCHANGED <<source, writes, runs, history>>

\* fs::remove_file of the temporary file may fail; nobody looks.
RemoveTmp == tmp' \in {NoFile, tmp}

\* dump_collection: an error of the inner part removes the temporary file,
\* whichever run it is of.
Fail ==
    /\ Fault
    /\ Goto("failed")
    /\ RemoveTmp
    /\ UNCHANGED <<todo, stream, out>>

Start ==
    /\ pc \in {"idle", "done", "failed", "killed"}
    /\ runs < MaxRuns
    /\ pc' = "check"
    /\ runs' = runs + 1 /\ writes' = 0
    /\ stayed' = Existing
    /\ seen' = {<<shardOf[p], p>> : p \in Existing}
    /\ todo' = <<>> /\ stream' = OpenAt(Origin)
    /\ UNCHANGED <<source, tmp, out, faults>>

\* Does the collection exist, and what is its schema?
Check ==
    /\ pc = "check"
    /\ \/ /\ Goto("create")
          /\ UNCHANGED <<todo, stream, tmp, out, faults>>
       \/ Fail

\* File::create empties what an earlier run left there.
CreateFile ==
    /\ pc = "create"
    /\ \/ /\ Goto("list")
          /\ tmp' = File("part", {}, <<>>)
          /\ UNCHANGED <<todo, stream, out, faults>>
       \/ Fail

\* The streams of a dump: one for every key, or the one without a key.
ShardStreams(ks) == IF ks = {} THEN <<NoKey>> ELSE SetToSeq(ks)

\* The header declares the keys the collection has now.
ListKeys ==
    /\ pc = "list"
    /\ \/ /\ Goto("pages")
          /\ tmp' = [tmp EXCEPT !.keys = keys]
          /\ todo' = ShardStreams(keys)
          /\ stream' = OpenAt(Origin)
          /\ UNCHANGED <<out, faults>>
       \/ Fail

\* What a scroll of one shard sees; without a key it sees every point.
InShard(s) == {p \in Existing : s = NoKey \/ shardOf[p] = s}

Records == Page(stream, InShard(Head(todo))) \ Odd

NextPage ==
    /\ pc = "pages" /\ todo # <<>> /\ ~stream.done
    /\ \/ /\ Goto("pages")
          /\ tmp' = IF Records = {} THEN tmp
                    ELSE [tmp EXCEPT !.batches =
                             Append(@, [shard |-> Head(todo), points |-> Records])]
          /\ stream' = Advance(stream, InShard(Head(todo)))
          /\ UNCHANGED <<todo, out, faults>>
       \/ Fail

\* Mutant: the next shard goes on at the cursor of the one before.
NextShardGoesOn ==
    /\ pc = "pages" /\ todo # <<>> /\ stream.done
    /\ Goto("pages")
    /\ todo' = Tail(todo)
    /\ stream' = OpenAt(stream.after)
    /\ UNCHANGED <<tmp, out, faults>>

NextShard ==
    /\ pc = "pages" /\ todo # <<>> /\ stream.done
    /\ Goto("pages")
    /\ todo' = Tail(todo)
    /\ stream' = OpenAt(Origin)
    /\ UNCHANGED <<tmp, out, faults>>

\* The footer and the flush complete the temporary file.
Flush ==
    /\ pc = "pages" /\ todo = <<>>
    /\ \/ /\ Goto("rename")
          /\ tmp' = [tmp EXCEPT !.is = "whole"]
          /\ UNCHANGED <<todo, stream, out, faults>>
       \/ Fail

-----------------------------------------------------------------------------
(* The temporary file takes the place of the output.                       *)

Rename ==
    /\ pc = "rename"
    /\ \/ Goto("done") /\ out' = tmp /\ tmp' = NoFile /\ UNCHANGED faults
       \/ Fault /\ Goto("copy") /\ UNCHANGED <<tmp, out>>
    /\ UNCHANGED <<todo, stream>>

\* fs::copy: the destination is opened and emptied, then filled. A failure
\* keeps the temporary file and is reported.
OpenCopy ==
    /\ pc = "copy"
    /\ \/ Goto("fill") /\ out' = File("part", {}, <<>>) /\ UNCHANGED faults
       \/ Fault /\ Goto("failed") /\ UNCHANGED out
    /\ UNCHANGED <<todo, stream, tmp>>

\* Mutant: nobody looks at the result of the copy.
FillCopyUnseen ==
    /\ pc = "fill"
    /\ Goto("unlink")
    /\ \/ out' = tmp /\ UNCHANGED faults
       \/ Fault /\ UNCHANGED out
    /\ UNCHANGED <<todo, stream, tmp>>

FillCopy ==
    /\ pc = "fill"
    /\ \/ Goto("unlink") /\ out' = tmp /\ UNCHANGED faults
       \/ Fault /\ Goto("failed") /\ UNCHANGED out
    /\ UNCHANGED <<todo, stream, tmp>>

Unlink ==
    /\ pc = "unlink"
    /\ Goto("done")
    /\ RemoveTmp
    /\ UNCHANGED <<todo, stream, out, faults>>

-----------------------------------------------------------------------------
(* What happens around the run.                                            *)

Kill ==
    /\ pc \in Active
    /\ Fault
    /\ Goto("killed")
    /\ UNCHANGED <<todo, stream, tmp, out>>

\* A client creates, moves or deletes a point while the run is on.
Write ==
    /\ pc \in Active
    /\ writes < MaxWrites /\ writes' = writes + 1
    /\ \E p \in Points, s \in (IF keys = {} THEN {NoKey} ELSE keys) \cup {Absent} :
          /\ shardOf[p] # s
          /\ shardOf' = [shardOf EXCEPT ![p] = s]
          /\ stayed' = stayed \ {p}
          /\ seen' = IF s = Absent THEN seen ELSE seen \cup {<<s, p>>}
    /\ UNCHANGED <<keys, pc, todo, stream, tmp, out, runs, faults>>

Over ==
    /\ pc \notin Active /\ runs = MaxRuns
    /\ UNCHANGED vars

Run == \/ Check \/ CreateFile \/ ListKeys \/ NextPage \/ NextShard \/ Flush
       \/ Rename \/ OpenCopy \/ FillCopy \/ Unlink

Next == Start \/ Run \/ Kill \/ Write \/ Over

Spec == Init /\ [][Next]_vars

\* The process runs on unless it is killed.
FairSpec == Spec /\ WF_vars(Run)

-----------------------------------------------------------------------------
(* Properties.                                                             *)

\* A complete script declares the shard keys of its batches, says of no point
\* what was never true during the run, and has every point that stayed where
\* it was in exactly one batch, under its own shard key.
Faithful(f) ==
    /\ \A i \in DOMAIN f.batches :
          /\ f.batches[i].shard = NoKey <=> f.keys = {}
          /\ f.batches[i].shard \in f.keys \cup {NoKey}
          /\ \A p \in f.batches[i].points : <<f.batches[i].shard, p>> \in seen
    /\ \A p \in stayed \ Odd :
          \E i \in DOMAIN f.batches :
             /\ p \in f.batches[i].points /\ f.batches[i].shard = shardOf[p]
             /\ \A j \in DOMAIN f.batches : p \in f.batches[j].points => j = i

DumpIsFaithful == pc \in {"rename", "copy", "fill", "unlink"} => Faithful(tmp)

\* A run that reports success has left a complete and faithful script at the
\* output, whichever way it got there and whatever earlier runs left behind.
DoneIsFaithful == pc = "done" => out.is = "whole" /\ Faithful(out)

\* What the doc of dump_collection says of an error: a file at the output is
\* preserved untouched. The code's copy, when it is cut off, leaves a part.
OutputPreserved == pc = "failed" => out.is # "part"

\* A run that is not killed ends, however the collection is written to.
RunEnds == pc \in Active ~> pc \notin Active
=============================================================================
