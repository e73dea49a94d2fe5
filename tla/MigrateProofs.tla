--------------------------- MODULE MigrateProofs ---------------------------
(***************************************************************************)
(* Proofs about Migrate, for every collection, batch size, number of       *)
(* workers, set of options and number of faults.                           *)
(***************************************************************************)
EXTENDS MigrateInv, ScrollPagesProofs, SequenceTheorems

ProducerType == [stream : Streams, win : Windows, open : BOOLEAN]

ConsumerType ==
  [busy : BOOLEAN, win : Windows, todo : SUBSET UpsertGroups,
   inflight : SUBSET UpsertGroups, failed : BOOLEAN]

-----------------------------------------------------------------------------
(* Types of the values the actions build. *)

LEMMA ValueTypes ==
  /\ NoCheckpoint \in Checkpoints
  /\ \A o \in Options : NewCheckpoint(o) \in Checkpoints
  /\ \A c \in Cursors : EmptyWindow(c) \in Windows /\ Producer(c) \in ProducerType
  /\ Origin \in Cursors
  /\ IdleConsumer \in ConsumerType
<1>1. Origin \in Cursors
  BY DEF Cursors
<1>2. NoCheckpoint \in Checkpoints
  BY <1>1 DEF NoCheckpoint, Checkpoints, Phases
<1>3. ASSUME NEW o \in Options PROVE NewCheckpoint(o) \in Checkpoints
  <2>1. o.fast \in BOOLEAN
    BY MigrateAssumption DEF ValidOptions, OptionRecords
  <2> QED
    BY <1>1, <2>1 DEF NewCheckpoint, NoCheckpoint, Checkpoints, Phases
<1>4. ASSUME NEW c \in Cursors PROVE EmptyWindow(c) \in Windows
  BY EmptySeq DEF EmptyWindow, Windows
<1>5. ASSUME NEW c \in Cursors PROVE Producer(c) \in ProducerType
  <2>1. OpenAt(c) \in Streams
    BY DEF OpenAt, Streams
  <2> QED
    BY <1>4, <2>1 DEF Producer, ProducerType
<1>6. IdleConsumer \in ConsumerType
  BY <1>1, <1>4 DEF IdleConsumer, ConsumerType
<1> QED
  BY <1>1, <1>2, <1>3, <1>4, <1>5, <1>6

\* A window's points are points of the source's id space.
LEMMA WindowPointsType ==
  ASSUME NEW win \in Windows
  PROVE  /\ WindowPoints(win) \in SUBSET Points
         /\ Skipped(win) \in SUBSET Points
         /\ win.pages \in Seq(SUBSET Points) /\ win.next \in Cursors
<1>1. win.pages \in Seq(SUBSET Points) /\ win.next \in Cursors
  BY DEF Windows
<1>2. \A i \in DOMAIN win.pages : win.pages[i] \in SUBSET Points
  BY <1>1, LenProperties
<1>3. WindowPoints(win) \in SUBSET Points
  BY <1>2 DEF WindowPoints
<1> QED
  BY <1>1, <1>3 DEF Skipped

LEMMA GroupsType ==
  ASSUME NEW win \in Windows
  PROVE  Groups(win) \in SUBSET UpsertGroups
<1>1. win.pages \in Seq(SUBSET Points)
  BY DEF Windows
<1>2. ASSUME NEW i \in DOMAIN win.pages
      PROVE  i \in Nat /\ win.pages[i] \in SUBSET Points
  BY <1>1, LenProperties
<1>3. ASSUME NEW i \in DOMAIN win.pages, NEW k \in Keys \cup {"unsharded"}
      PROVE  [page |-> i, key |-> k, pts |-> {p \in win.pages[i] : Class[p] = k}]
               \in UpsertGroups
  BY <1>2 DEF UpsertGroups
<1> QED
  BY <1>3 DEF Groups

\* Counting a window keeps the checkpoint a checkpoint, at the window's cursor.
LEMMA CountedType ==
  ASSUME NEW win \in Windows, mem \in Checkpoints
  PROVE  /\ Counted(win) \in Checkpoints
         /\ Counted(win).cursor = win.next
         /\ Counted(win).phase = mem.phase
         /\ Counted(win).fast = mem.fast
<1>1. WindowPoints(win) \ Skipped(win) \in SUBSET Points /\ Skipped(win) \in SUBSET Points
  BY WindowPointsType
<1>2. /\ Cardinality(WindowPoints(win) \ Skipped(win)) \in Nat
      /\ Cardinality(Skipped(win)) \in Nat
  BY <1>1, PointSetsFinite
<1>3. win.next \in Cursors
  BY WindowPointsType
<1> DEFINE w == mem.written + Cardinality(WindowPoints(win) \ Skipped(win))
           s == mem.skipped + Cardinality(Skipped(win))
<1>4. mem.written \in Nat /\ mem.skipped \in Nat
  BY DEF Checkpoints
<1>5. w \in Nat /\ s \in Nat
  BY <1>2, <1>4
<1>6. Counted(win) = [mem EXCEPT !.written = w, !.skipped = s, !.cursor = win.next]
  BY DEF Counted
<1> HIDE DEF w, s
<1> QED
  BY <1>3, <1>5, <1>6 DEF Checkpoints

LEMMA DiscoveredType ==
  Discovered \in SUBSET Keys
BY DEF Discovered

LEMMA OptionTypes ==
  ASSUME NEW o \in Options
  PROVE  o.fast \in BOOLEAN /\ o.restart \in BOOLEAN /\ o.cutover \in BOOLEAN
BY MigrateAssumption DEF ValidOptions, OptionRecords

-----------------------------------------------------------------------------
(* The type invariant, with the control invariant it needs. *)

\* What a run's end leaves of the process is well typed.
LEMMA HaltTypes ==
  ASSUME TypeOK, NEW r \in {"ok", "error", "killed"}, Halt(r)
  PROVE  /\ pc' \in Steps /\ opts' \in Options /\ mem' \in Checkpoints /\ srcCount' \in Nat
         /\ created' \in SUBSET Keys /\ prod' \in ProducerType /\ chan' \in Seq(Windows)
         /\ cons' \in ConsumerType /\ ingestErr' \in BOOLEAN
         /\ outcome' \in {"none", "ok", "error", "killed"}
BY ValueTypes, EmptySeq DEF Halt, TypeOK, Steps

\* So is what a failed ingest leaves.
LEMMA FailIngestTypes ==
  ASSUME TypeOK, FailIngest
  PROVE  /\ pc' \in Steps /\ opts' \in Options /\ mem' \in Checkpoints /\ srcCount' \in Nat
         /\ created' \in SUBSET Keys /\ prod' \in ProducerType /\ chan' \in Seq(Windows)
         /\ cons' \in ConsumerType /\ ingestErr' \in BOOLEAN
         /\ outcome' \in {"none", "ok", "error", "killed"}
BY ValueTypes, EmptySeq DEF FailIngest, TypeOK, Steps, control

LEMMA TypeInit == Init => TypeOK
<1> SUFFICES ASSUME Init PROVE TypeOK
  OBVIOUS
<1>1. src \in [exists : BOOLEAN, pts : SUBSET Points]
  BY MigrateAssumption DEF Init
<1>2. tgt \in [exists : BOOLEAN, pts : SUBSET Points, keys : SUBSET Keys,
               threshold : {"own", "original", "bulk"}]
  BY MigrateAssumption DEF Init, OwnTarget, NoTarget
<1>3. prod \in ProducerType /\ cons \in ConsumerType /\ chan \in Seq(Windows)
  BY ValueTypes, EmptySeq DEF Init
<1>4. cp \in Checkpoints /\ cp.phase # "schema" /\ mem \in Checkpoints
  BY ValueTypes DEF Init, NoCheckpoint
<1>5. faults \in 0..MaxFaults
  BY MigrateAssumption DEF Init
<1> QED
  BY <1>1, <1>2, <1>3, <1>4, <1>5 DEF Init, TypeOK, Steps, ProducerType, ConsumerType

LEMMA TypeStep ==
  ASSUME TypeOK, ControlInv, [Next]_vars
  PROVE  TypeOK'
<1> USE DEF ProducerType, ConsumerType
<1>1. CASE UNCHANGED vars
  BY <1>1 DEF TypeOK, vars
<1>2. ASSUME NEW o \in Options, StartFresh(o) PROVE TypeOK'
  <2>1. mem' \in Checkpoints /\ mem'.cursor \in Cursors /\ prod' = Producer(mem'.cursor)
    BY <1>2, ValueTypes DEF StartFresh, BeginRun, Checkpoints
  <2>2. prod' \in ProducerType
    BY <2>1, ValueTypes
  <2>3. cp' \in Checkpoints /\ cp'.phase # "schema"
    BY <1>2, ValueTypes DEF StartFresh, TypeOK, NoCheckpoint
  <2>4. srcCount' \in Nat /\ created' \in SUBSET Keys
    BY <1>2, PointSetsFinite, DiscoveredType DEF StartFresh, BeginRun, TypeOK
  <2>5. pc' \in Steps
    BY <1>2 DEF StartFresh, BeginRun, Steps
  <2> QED
    BY <1>2, <2>1, <2>2, <2>3, <2>4, <2>5 DEF StartFresh, BeginRun, TypeOK
<1>3. ASSUME NEW o \in Options, StartResumed(o) PROVE TypeOK'
  <2>1. mem' \in Checkpoints /\ mem'.cursor \in Cursors /\ prod' = Producer(mem'.cursor)
    BY <1>3 DEF StartResumed, BeginRun, TypeOK, Checkpoints
  <2>2. prod' \in ProducerType
    BY <2>1, ValueTypes
  <2>3. srcCount' \in Nat /\ created' \in SUBSET Keys
    BY <1>3, PointSetsFinite, DiscoveredType DEF StartResumed, BeginRun, TypeOK
  <2>4. pc' \in Steps
    BY <1>3 DEF StartResumed, BeginRun, Steps
  <2> QED
    BY <1>3, <2>1, <2>2, <2>3, <2>4 DEF StartResumed, BeginRun, TypeOK
<1>4. ASSUME NEW o \in Options, StartRefused(o) PROVE TypeOK'
  BY <1>4 DEF StartRefused, TypeOK, stores, pipeline
<1>5. CASE DropTarget
  BY <1>5 DEF DropTarget, Goto, TypeOK, NoTarget, pipeline, Steps
<1>6. CASE CreateTarget
  BY <1>6 DEF CreateTarget, Goto, TypeOK, pipeline, Steps
<1>7. CASE KeepTarget
  BY <1>7 DEF KeepTarget, Goto, TypeOK, stores, pipeline, Steps
<1>8. CASE CreateShardKeys
  <2>1. mem' \in Checkpoints
    BY <1>8 DEF CreateShardKeys, TypeOK, Checkpoints, Phases, SavedPhases
  <2> QED
    BY <1>8, <2>1 DEF CreateShardKeys, Goto, TypeOK, pipeline, Steps
<1>9. CASE SaveIngest
  BY <1>9 DEF SaveIngest, Goto, TypeOK, pipeline, Steps, ControlInv, SchemaInv, SchemaSteps
<1>10. CASE FetchPage
  <2> DEFINE page == Page(prod.stream, src.pts)
             next == Advance(prod.stream, src.pts)
  <2>1. prod.stream \in Streams /\ src.pts \in SUBSET Points
    BY DEF TypeOK
  <2>2. page \in SUBSET Points /\ next \in Streams
    BY <2>1, AdvanceCovers
  <2>3. prod.win \in Windows /\ prod.win.pages \in Seq(SUBSET Points)
    BY DEF TypeOK, Windows
  <2>4. next.after \in Cursors
    BY <2>2 DEF Streams
  <2> HIDE DEF page, next
  <2>5. [next |-> next.after, pages |-> Append(prod.win.pages, page)] \in Windows
    BY <2>2, <2>3, <2>4 DEF Windows
  <2>6. prod' = [prod EXCEPT
          !.stream = next,
          !.win = IF page = {} THEN @
                  ELSE [next |-> next.after, pages |-> Append(@.pages, page)]]
    BY <1>10 DEF FetchPage, page, next
  <2>7. prod' \in ProducerType
    BY <2>2, <2>3, <2>5, <2>6 DEF TypeOK
  <2> QED
    BY <1>10, <2>7 DEF FetchPage, TypeOK, stores, control
<1>11. CASE SendWindow
  <2>1. prod.win \in Windows /\ prod.win.next \in Cursors
    BY DEF TypeOK, Windows
  <2>2. EmptyWindow(prod.win.next) \in Windows
    BY <2>1, ValueTypes
  <2>3. chan' \in Seq(Windows)
    BY <1>11, <2>1 DEF SendWindow, TypeOK
  <2>4. prod' \in ProducerType
    BY <1>11, <2>2 DEF SendWindow, TypeOK
  <2> QED
    BY <1>11, <2>3, <2>4 DEF SendWindow, TypeOK, stores, control
<1>12. CASE CloseChannel
  BY <1>12 DEF CloseChannel, TypeOK, stores, control
<1>13. CASE ReceiveWindow
  <2>1. Head(chan) \in Windows /\ Tail(chan) \in Seq(Windows)
    BY <1>13, HeadTailProperties DEF ReceiveWindow, TypeOK
  <2>2. Groups(Head(chan)) \in SUBSET UpsertGroups
    BY <2>1, GroupsType
  <2>3. cons' \in ConsumerType
    BY <1>13, <2>1, <2>2, ValueTypes DEF ReceiveWindow, ConsumerType
  <2> QED
    BY <1>13, <2>1, <2>3 DEF ReceiveWindow, TypeOK, stores, control
<1>14. CASE RejectWindow
  BY <1>14, FailIngestTypes DEF RejectWindow, TypeOK, stores
<1>15. CASE EnsureShardKey
  BY <1>15 DEF EnsureShardKey, TypeOK, KeysOf, control, pipeline
<1>16. CASE IssueChunk
  <2>1. PICK chunk \in SUBSET cons.todo :
          cons' = [cons EXCEPT !.todo = @ \ chunk, !.inflight = chunk]
    BY <1>16 DEF IssueChunk
  <2>2. cons' \in ConsumerType
    BY <2>1 DEF TypeOK
  <2> QED
    BY <1>16, <2>2 DEF IssueChunk, TypeOK, stores, control
<1>17. ASSUME NEW g \in cons.inflight, UpsertDone(g) PROVE TypeOK'
  <2>1. g.pts \in SUBSET Points
    BY <1>17 DEF TypeOK, UpsertGroups
  <2> QED
    BY <1>17, <2>1 DEF UpsertDone, TypeOK, control
<1>18. ASSUME NEW g \in cons.inflight, UpsertRejected(g) PROVE TypeOK'
  BY <1>18 DEF UpsertRejected, TypeOK, stores, control
<1>19. ASSUME NEW g \in cons.inflight, UpsertLost(g) PROVE TypeOK'
  <2>1. g.pts \in SUBSET Points
    BY <1>19 DEF TypeOK, UpsertGroups
  <2>2. PICK applied \in SUBSET g.pts : tgt' = [tgt EXCEPT !.pts = @ \cup applied]
    BY <1>19 DEF UpsertLost
  <2>3. tgt' \in [exists : BOOLEAN, pts : SUBSET Points, keys : SUBSET Keys,
                  threshold : {"own", "original", "bulk"}]
    BY <2>1, <2>2 DEF TypeOK
  <2>4. faults' \in 0..MaxFaults
    BY <1>19, MigrateAssumption DEF UpsertLost, Fault, TypeOK
  <2>5. cons' \in ConsumerType
    BY <1>19 DEF UpsertLost, TypeOK
  <2> QED
    BY <1>19, <2>3, <2>4, <2>5 DEF UpsertLost, TypeOK, control
<1>20. CASE FailWindow
  BY <1>20, FailIngestTypes DEF FailWindow, TypeOK, stores
<1>21. CASE CommitWindow
  <2>1. mem' \in Checkpoints /\ mem'.phase = mem.phase
    BY <1>21, CountedType DEF CommitWindow, TypeOK
  <2>2. mem.phase = "ingest"
    BY <1>21 DEF CommitWindow, ControlInv, PhaseInv
  <2> QED
    BY <1>21, <2>1, <2>2, ValueTypes DEF CommitWindow, TypeOK, control
<1>22. CASE FinishIngest
  <2>1. mem' \in Checkpoints /\ mem'.phase # "schema"
    BY <1>22 DEF FinishIngest, TypeOK, Checkpoints, Phases, SavedPhases
  <2> QED
    BY <1>22, <2>1 DEF FinishIngest, Goto, TypeOK, pipeline, Steps
<1>23. CASE Decide
  <2>1. CASE RestoreNeeded /\ pc' = "restore" /\ UNCHANGED <<opts, srcCount, mem, created, pipeline, ingestErr, outcome>>
    BY <1>23, <2>1 DEF Decide, TypeOK, stores, pipeline, Steps
  <2>2. CASE Halt("error")
    BY <1>23, <2>2, HaltTypes DEF Decide, TypeOK, stores
  <2>3. CASE /\ ~RestoreNeeded /\ ~ingestErr
             /\ pc' = IF mem.phase = "done" THEN "remove" ELSE mem.phase
             /\ UNCHANGED <<opts, srcCount, mem, created, pipeline, ingestErr, outcome>>
    <3>1. mem.phase \in AfterIngest /\ mem.fast = opts.fast /\ (mem.phase = "optimize" => mem.fast)
      BY <1>23, <2>3 DEF Decide, ControlInv, PhaseInv
    <3>2. mem.phase # "optimize"
      BY <2>3, <3>1 DEF RestoreNeeded
    <3>3. pc' \in Steps
      BY <2>3, <3>1, <3>2 DEF AfterIngest, Steps
    <3> QED
      BY <1>23, <2>3, <3>3 DEF Decide, TypeOK, stores, pipeline
  <2> QED
    BY <1>23, <2>1, <2>2, <2>3 DEF Decide
<1>24. CASE RestoreOptimizers
  <2>1. mem' \in Checkpoints
    BY <1>24 DEF RestoreOptimizers, TypeOK, Checkpoints, Phases, SavedPhases
  <2> QED
    BY <1>24, <2>1 DEF RestoreOptimizers, Goto, TypeOK, pipeline, Steps
<1>25. CASE SaveVerify
  <2>1. cp' \in Checkpoints /\ cp'.phase # "schema"
    BY <1>25 DEF SaveVerify, TypeOK, ControlInv, PhaseInv
  <2>2. CASE ingestErr
    BY <1>25, <2>1, <2>2, HaltTypes DEF SaveVerify, TypeOK
  <2>3. CASE ~ingestErr
    BY <1>25, <2>1, <2>3 DEF SaveVerify, TypeOK, pipeline, Steps
  <2> QED
    BY <2>2, <2>3
<1>26. CASE Verify
  <2>1. mem' \in Checkpoints /\ mem'.phase # "schema"
    BY <1>26 DEF Verify, TypeOK, Checkpoints, Phases, SavedPhases
  <2> QED
    BY <1>26, <2>1 DEF Verify, Goto, TypeOK, pipeline, Steps
<1>27. CASE CountMismatch
  BY <1>27, HaltTypes DEF CountMismatch, TypeOK, stores
<1>28. CASE CutoverAlias
  BY <1>28 DEF CutoverAlias, Goto, TypeOK, pipeline, Steps
<1>29. CASE DropSource
  BY <1>29 DEF DropSource, Goto, TypeOK, pipeline, Steps
<1>30. CASE SaveDone
  <2>1. mem' \in Checkpoints /\ mem'.phase # "schema"
    BY <1>30 DEF SaveDone, TypeOK, Checkpoints, Phases, SavedPhases
  <2> QED
    BY <1>30, <2>1 DEF SaveDone, Goto, TypeOK, pipeline, Steps
<1>31. CASE RemoveCheckpoint
  <2>1. cp' \in Checkpoints /\ cp'.phase # "schema"
    BY <1>31, ValueTypes DEF RemoveCheckpoint, NoCheckpoint
  <2> QED
    BY <1>31, <2>1, HaltTypes DEF RemoveCheckpoint, TypeOK
<1>32. faults < MaxFaults /\ faults' = faults + 1 => faults' \in 0..MaxFaults
  BY MigrateAssumption DEF TypeOK
<1>33. CASE Crash
  BY <1>32, <1>33, HaltTypes DEF Crash, Fault, TypeOK, stores
<1>34. ASSUME NEW o \in Options, FailStart(o) PROVE TypeOK'
  BY <1>32, <1>34 DEF FailStart, Fault, TypeOK, stores, pipeline
<1>35. CASE FailStep
  <2> DEFINE TgtType == [exists : BOOLEAN, pts : SUBSET Points, keys : SUBSET Keys,
                         threshold : {"own", "original", "bulk"}]
  <2>1. Halt("error") /\ faults < MaxFaults /\ faults' = faults + 1
    BY <1>35 DEF FailStep, Fault
  <2>2. /\ src' \in [exists : BOOLEAN, pts : SUBSET Points] /\ tgt' \in TgtType
        /\ alias' \in {"none", "old", "target"} /\ cp' = cp
    <3>1. CASE UNCHANGED stores
      BY <3>1 DEF TypeOK, stores
    <3>2. CASE /\ tgt' = NoTarget
               /\ alias' = IF alias = "target" THEN "none" ELSE alias
               /\ UNCHANGED <<src, cp>>
      BY <3>2 DEF TypeOK, NoTarget
    <3>3. CASE /\ tgt' = [exists |-> TRUE, pts |-> {}, keys |-> {},
                          threshold |-> IF opts.fast THEN "bulk" ELSE "original"]
               /\ UNCHANGED <<src, alias, cp>>
      BY <3>3 DEF TypeOK
    <3>4. CASE /\ \E some \in SUBSET created : tgt' = [tgt EXCEPT !.keys = @ \cup some]
               /\ UNCHANGED <<src, alias, cp>>
      <4>1. PICK some \in SUBSET created : tgt' = [tgt EXCEPT !.keys = @ \cup some]
        BY <3>4
      <4> QED
        BY <3>4, <4>1 DEF TypeOK
    <3>5. CASE tgt' = [tgt EXCEPT !.threshold = "original"] /\ UNCHANGED <<src, alias, cp>>
      BY <3>5 DEF TypeOK
    <3>6. CASE alias' = "target" /\ UNCHANGED <<src, tgt, cp>>
      BY <3>6 DEF TypeOK
    <3>7. CASE src' = [exists |-> FALSE, pts |-> {}] /\ UNCHANGED <<tgt, alias, cp>>
      BY <3>7 DEF TypeOK
    <3> QED
      BY <1>35, <3>1, <3>2, <3>3, <3>4, <3>5, <3>6, <3>7 DEF FailStep
  <2> QED
    BY <1>32, <2>1, <2>2, HaltTypes DEF TypeOK
<1>36. CASE InterruptIngest
  BY <1>32, <1>36, FailIngestTypes DEF InterruptIngest, Fault, TypeOK, stores
<1>37. CASE LoseWindowSave
  <2>1. mem' \in Checkpoints
    BY <1>37, CountedType DEF LoseWindowSave, TypeOK
  <2> QED
    BY <1>32, <1>37, <2>1, ValueTypes, EmptySeq DEF LoseWindowSave, Fault, TypeOK, Steps, stores, control
<1>38. CASE LoseIngestSave
  <2>1. mem' \in Checkpoints
    BY <1>38 DEF LoseIngestSave, TypeOK, Checkpoints, Phases, SavedPhases
  <2> QED
    BY <1>32, <1>38, <2>1 DEF LoseIngestSave, Goto, Fault, TypeOK, Steps, stores, pipeline
<1>39. ASSUME NEW p \in Late, WriteSource(p) PROVE TypeOK'
  <2>1. p \in Points
    BY MigrateAssumption
  <2> QED
    BY <1>39, <2>1 DEF WriteSource, TypeOK, control, pipeline
<1> QED
  BY <1>1, <1>2, <1>3, <1>4, <1>5, <1>6, <1>7, <1>8, <1>9, <1>10, <1>11, <1>12, <1>13, <1>14,
     <1>15, <1>16, <1>17, <1>18, <1>19, <1>20, <1>21, <1>22, <1>23, <1>24, <1>25, <1>26, <1>27,
     <1>28, <1>29, <1>30, <1>31, <1>33, <1>34, <1>35, <1>36, <1>37, <1>38, <1>39
     DEF Next, Operator, Sequence, Produce, Consume, Upsert, Failure

LEMMA ControlInit == Init => ControlInv
BY DEF Init, ControlInv, SchemaInv, QuietInv, PhaseInv, SchemaSteps, NoCheckpoint

LEMMA ControlStep ==
  ASSUME TypeOK, ControlInv, [Next]_vars
  PROVE  ControlInv'
<1> USE DEF ControlInv, SchemaInv, QuietInv, PhaseInv, SchemaSteps
<1>1. CASE UNCHANGED vars
  BY <1>1 DEF vars, Producer
<1>2. ASSUME Halt("ok") \/ Halt("error") \/ Halt("killed"),
             cp' \in {cp, NoCheckpoint, mem}, mem.phase = "optimize" => mem.fast
      PROVE  ControlInv'
  BY <1>2 DEF Halt, NoCheckpoint, IdleConsumer
<1>3. ASSUME FailIngest, UNCHANGED cp, pc = "ingest" PROVE ControlInv'
  BY <1>3 DEF FailIngest, control
<1>4. ASSUME NEW o \in Options, StartFresh(o) PROVE ControlInv'
  <2>1. /\ cp'.phase = "none" /\ mem' = NewCheckpoint(o) /\ pc' = "schema"
        /\ mem'.phase = "schema" /\ mem'.cursor = Origin /\ mem'.fast = o.fast
        /\ prod' = Producer(mem'.cursor) /\ opts' = o /\ pc = "idle"
        /\ UNCHANGED <<chan, cons>>
    BY <1>4 DEF StartFresh, BeginRun, Fresh, NewCheckpoint, NoCheckpoint
  <2> QED
    BY <2>1
<1>5. ASSUME NEW o \in Options, StartResumed(o) PROVE ControlInv'
  <2>1. /\ cp' = cp /\ mem' = cp /\ opts' = o /\ pc = "idle" /\ cp.fast = o.fast
        /\ cp.phase # "none" /\ cp.phase \in Phases /\ cp.phase # "schema"
        /\ UNCHANGED <<chan, cons, ingestErr>>
    BY <1>5 DEF StartResumed, BeginRun, Accepted, Resumable, TypeOK, Checkpoints
  <2>2. pc' = IF cp.phase = "ingest" THEN "ingest" ELSE "decide"
    BY <1>5, <2>1 DEF StartResumed, BeginRun
  <2>3. cp.phase # "ingest" => cp.phase \in AfterIngest
    BY <2>1 DEF Phases, SavedPhases, AfterIngest
  <2> QED
    BY <2>1, <2>2, <2>3
<1>6. ASSUME NEW o \in Options, StartRefused(o) \/ FailStart(o) PROVE ControlInv'
  BY <1>6 DEF StartRefused, FailStart, stores, pipeline
<1>7. CASE DropTarget
  BY <1>7 DEF DropTarget, Goto, pipeline
<1>8. CASE CreateTarget
  BY <1>8 DEF CreateTarget, Goto, pipeline
<1>9. CASE KeepTarget
  BY <1>9 DEF KeepTarget, Goto, pipeline, stores
<1>10. CASE CreateShardKeys
  BY <1>10 DEF CreateShardKeys, Goto, pipeline, TypeOK, Checkpoints
<1>11. CASE SaveIngest
  BY <1>11 DEF SaveIngest, Goto, pipeline
<1>12. CASE FetchPage \/ SendWindow \/ CloseChannel
  BY <1>12 DEF FetchPage, SendWindow, CloseChannel, stores, control
<1>13. CASE ReceiveWindow \/ EnsureShardKey \/ IssueChunk
  <2>1. /\ pc = "ingest" /\ pc' = pc /\ UNCHANGED <<opts, mem, cp>>
    BY <1>13 DEF ReceiveWindow, EnsureShardKey, IssueChunk, stores, control
  <2>2. CASE ReceiveWindow
    BY <2>1, <2>2 DEF ReceiveWindow, IdleConsumer
  <2>3. CASE EnsureShardKey
    BY <2>1, <2>3 DEF EnsureShardKey, pipeline
  <2>4. CASE IssueChunk
    <3>1. cons'.busy
      BY <2>4 DEF IssueChunk, TypeOK
    <3> QED
      BY <2>1, <3>1
  <2> QED
    BY <1>13, <2>2, <2>3, <2>4
<1>14. CASE RejectWindow \/ FailWindow \/ InterruptIngest
  BY <1>3, <1>14 DEF RejectWindow, FailWindow, InterruptIngest, stores
<1>15. ASSUME NEW g \in cons.inflight, UpsertDone(g) \/ UpsertRejected(g) \/ UpsertLost(g)
       PROVE  ControlInv'
  <2>1. pc = "ingest" /\ pc' = pc /\ UNCHANGED <<opts, mem, cp>>
    BY <1>15 DEF UpsertDone, UpsertRejected, UpsertLost, stores, control
  <2>2. cons.busy
    BY <1>15 DEF IdleConsumer
  <2>3. cons'.busy
    BY <1>15, <2>2 DEF UpsertDone, UpsertRejected, UpsertLost, TypeOK
  <2> QED
    BY <2>1, <2>3
<1>16. CASE CommitWindow \/ LoseWindowSave
  <2>1. /\ mem'.phase = mem.phase /\ mem'.fast = mem.fast /\ cp' \in {cp, mem'}
        /\ pc = "ingest" /\ UNCHANGED <<opts>>
        /\ cons' = IdleConsumer
        /\ pc' = "ingest" \/ (pc' = "decide" /\ ingestErr' /\ chan' = <<>>)
    BY <1>16, CountedType DEF CommitWindow, LoseWindowSave, TypeOK, control, stores
  <2> QED
    BY <2>1
<1>17. CASE FinishIngest \/ LoseIngestSave
  <2>1. /\ mem'.phase = IF opts.fast THEN "optimize" ELSE "verify"
        /\ mem'.fast = mem.fast /\ cp' \in {cp, mem'}
        /\ pc = "ingest" /\ pc' = "decide" /\ UNCHANGED <<opts, pipeline>>
        /\ chan = <<>> /\ ~cons.busy
    BY <1>17 DEF FinishIngest, LoseIngestSave, Goto, TypeOK, Checkpoints, stores
  <2>2. opts.fast => mem'.fast
    BY <2>1
  <2> QED
    BY <2>1, <2>2 DEF AfterIngest, pipeline
<1>18. CASE Decide
  <2>1. CASE Halt("error")
    BY <1>2, <1>18, <2>1 DEF Decide, stores
  <2>2. CASE /\ RestoreNeeded /\ pc' = "restore"
             /\ UNCHANGED <<opts, srcCount, mem, created, pipeline, ingestErr, outcome>>
    BY <1>18, <2>2 DEF Decide, RestoreNeeded, stores, pipeline
  <2>3. CASE /\ ~ingestErr
             /\ pc' = IF mem.phase = "done" THEN "remove" ELSE mem.phase
             /\ UNCHANGED <<opts, srcCount, mem, created, pipeline, ingestErr, outcome>>
    BY <1>18, <2>3 DEF Decide, AfterIngest, stores, pipeline
  <2> QED
    BY <1>18, <2>1, <2>2, <2>3 DEF Decide
<1>19. CASE RestoreOptimizers
  BY <1>19 DEF RestoreOptimizers, Goto, pipeline, TypeOK, Checkpoints
<1>20. CASE SaveVerify
  BY <1>2, <1>20 DEF SaveVerify, pipeline
<1>21. CASE Verify
  BY <1>21 DEF Verify, Goto, pipeline, TypeOK, Checkpoints
<1>22. CASE CountMismatch \/ Crash \/ RemoveCheckpoint \/ FailStep
  <2>1. cp' \in {cp, NoCheckpoint}
    BY <1>22 DEF CountMismatch, Crash, RemoveCheckpoint, FailStep, stores
  <2>2. Halt("ok") \/ Halt("error") \/ Halt("killed")
    BY <1>22 DEF CountMismatch, Crash, RemoveCheckpoint, FailStep
  <2> QED
    BY <1>2, <2>1, <2>2
<1>23. CASE CutoverAlias \/ DropSource
  BY <1>23 DEF CutoverAlias, DropSource, Goto, pipeline
<1>24. CASE SaveDone
  BY <1>24 DEF SaveDone, Goto, pipeline, TypeOK, Checkpoints
<1>25. ASSUME NEW p \in Late, WriteSource(p) PROVE ControlInv'
  BY <1>25 DEF WriteSource, control, pipeline
<1> QED
  BY <1>1, <1>4, <1>5, <1>6, <1>7, <1>8, <1>9, <1>10, <1>11, <1>12, <1>13, <1>14, <1>15, <1>16,
     <1>17, <1>18, <1>19, <1>20, <1>21, <1>22, <1>23, <1>24, <1>25
     DEF Next, Operator, Sequence, Produce, Consume, Upsert, Failure

\* Every variable keeps its type: in particular the process never leaves its
\* steps, the stored phase is never `schema`, and every cursor is a point's id.
THEOREM TypeCorrect == Spec => []TypeOK
<1>1. Init => TypeOK /\ ControlInv
  BY TypeInit, ControlInit
<1>2. TypeOK /\ ControlInv /\ [Next]_vars => (TypeOK /\ ControlInv)'
  BY TypeStep, ControlStep
<1>3. Spec => [](TypeOK /\ ControlInv)
  BY <1>1, <1>2, PTL DEF Spec
<1> QED
  BY <1>3, PTL

-----------------------------------------------------------------------------
(* The cursor never runs ahead of the target, whatever the options. *)

LEMMA StartingPoints ==
  /\ Initial \subseteq Points /\ Wanted \subseteq Initial
  /\ \A p \in Initial : p \in Nat /\ p > Origin
BY MigrateAssumption, PointsAreNaturals DEF Wanted

LEMMA WantedPoints ==
  \A p \in Wanted : p \in Nat /\ p > Origin /\ p \in Points /\ p \in Initial
                    /\ Class[p] \in Keys \cup {"unsharded"}
BY MigrateAssumption, PointsAreNaturals DEF Wanted

LEMMA SourceStep ==
  ASSUME TypeOK, ControlInv, SourceInv, [Next]_vars
  PROVE  SourceInv'
<1> USE DEF SourceInv, SchemaSteps
<1>1. CASE UNCHANGED vars
  BY <1>1 DEF vars
<1>2. ASSUME UNCHANGED src, pc' \in SchemaSteps \cup {"ingest"} => src.exists
      PROVE  SourceInv'
  BY <1>2
<1>3. ASSUME NEW o \in Options, StartFresh(o) \/ StartResumed(o) PROVE SourceInv'
  BY <1>2, <1>3 DEF StartFresh, StartResumed, BeginRun, Accepted
<1>4. ASSUME NEW o \in Options, StartRefused(o) \/ FailStart(o) PROVE SourceInv'
  BY <1>2, <1>4 DEF StartRefused, FailStart, stores
<1>5. CASE DropTarget \/ CreateTarget \/ KeepTarget \/ CreateShardKeys \/ SaveIngest
  BY <1>2, <1>5 DEF DropTarget, CreateTarget, KeepTarget, CreateShardKeys, SaveIngest, Goto, stores
<1>6. CASE FetchPage \/ SendWindow \/ CloseChannel \/ ReceiveWindow \/ EnsureShardKey \/ IssueChunk
  BY <1>2, <1>6 DEF FetchPage, SendWindow, CloseChannel, ReceiveWindow, EnsureShardKey, IssueChunk, stores
<1>7. CASE RejectWindow \/ FailWindow \/ InterruptIngest
  BY <1>2, <1>7 DEF RejectWindow, FailWindow, InterruptIngest, FailIngest, stores
<1>8. ASSUME NEW g \in cons.inflight, UpsertDone(g) \/ UpsertRejected(g) \/ UpsertLost(g)
      PROVE  SourceInv'
  BY <1>2, <1>8 DEF UpsertDone, UpsertRejected, UpsertLost, stores
<1>9. CASE CommitWindow \/ LoseWindowSave \/ FinishIngest \/ LoseIngestSave
  BY <1>2, <1>9 DEF CommitWindow, LoseWindowSave, FinishIngest, LoseIngestSave, Goto, stores
<1>10. CASE Decide
  <2>1. UNCHANGED src
    BY <1>10 DEF Decide, stores
  <2>2. pc' \notin SchemaSteps \cup {"ingest"}
    BY <1>10 DEF Decide, Halt, ControlInv, PhaseInv, AfterIngest
  <2> QED
    BY <1>2, <2>1, <2>2
<1>11. CASE RestoreOptimizers \/ SaveVerify \/ Verify \/ CountMismatch \/ CutoverAlias
            \/ SaveDone \/ RemoveCheckpoint \/ Crash
  BY <1>2, <1>11 DEF RestoreOptimizers, SaveVerify, Verify, CountMismatch, CutoverAlias,
                     SaveDone, RemoveCheckpoint, Crash, Goto, Halt, stores
<1>12. CASE DropSource \/ FailStep
  <2>1. pc' \notin SchemaSteps \cup {"ingest"}
    BY <1>12 DEF DropSource, FailStep, Goto, Halt
  <2>2. src' = src \/ ~src'.exists
    BY <1>12 DEF DropSource, FailStep, stores
  <2> QED
    BY <2>1, <2>2
<1>13. ASSUME NEW p \in Late, WriteSource(p) PROVE SourceInv'
  BY <1>13 DEF WriteSource, TypeOK
<1> QED
  BY <1>1, <1>3, <1>4, <1>5, <1>6, <1>7, <1>8, <1>9, <1>10, <1>11, <1>12, <1>13
     DEF Next, Operator, Sequence, Produce, Consume, Upsert, Failure

\* A page that the stream fetches extends the producer's window without a gap.
LEMMA FetchCovers ==
  ASSUME TypeOK, SourceInv, PipelineInv, FetchPage
  PROVE  /\ Seg(ProdFrom, prod'.win)
         /\ prod'.win.next = prod'.stream.after
         /\ prod'.stream.done => \A p \in Initial : p <= prod'.stream.after
         /\ prod'.open /\ prod.open
<1> DEFINE page == Page(prod.stream, src.pts)
           next == Advance(prod.stream, src.pts)
           old  == prod.win
<1>1. prod.stream \in Streams /\ src.pts \in SUBSET Points /\ Initial \in SUBSET src.pts
  BY StartingPoints DEF TypeOK, SourceInv, FetchPage
<1>2. /\ page \in SUBSET Points /\ next \in Streams /\ next.after >= prod.stream.after
      /\ page = {} => next.after = prod.stream.after
      /\ \A p \in src.pts : prod.stream.after < p /\ p <= next.after => p \in page
      /\ next.done => (prod.stream.done \/ \A p \in src.pts : p <= next.after)
  BY <1>1, AdvanceCovers
<1>3. /\ prod' = [prod EXCEPT
          !.stream = next,
          !.win = IF page = {} THEN @
                  ELSE [next |-> next.after, pages |-> Append(@.pages, page)]]
      /\ ~prod.stream.done /\ prod.open
  BY DEF FetchPage
<1>4. old \in Windows /\ old.pages \in Seq(SUBSET Points) /\ old.next \in Nat
  BY PointsAreNaturals DEF TypeOK, Windows
<1>5. /\ Seg(ProdFrom, old) /\ old.next = prod.stream.after
  BY DEF PipelineInv, FetchPage
<1>6. /\ prod'.stream = next /\ prod'.open
      /\ prod'.win = IF page = {} THEN old
                     ELSE [next |-> next.after, pages |-> Append(old.pages, page)]
  BY <1>3 DEF TypeOK
<1> HIDE DEF page, next
<1>7. prod'.win.next = next.after
  BY <1>2, <1>5, <1>6
<1>8. next.done => \A p \in Initial : p <= next.after
  BY <1>1, <1>2, <1>3
<1>9. ASSUME NEW p \in Initial, ProdFrom < p, p <= next.after
      PROVE  p \in WindowPoints(prod'.win)
  <2>1. p \in Nat /\ next.after \in Nat
    BY <1>2, StartingPoints, PointsAreNaturals DEF Streams
  <2>2. CASE page = {}
    BY <1>2, <1>5, <1>6, <1>9, <2>2 DEF Seg
  <2>3. CASE page # {}
    <3> DEFINE new == Append(old.pages, page)
    <3>1. /\ DOMAIN new = 1..(Len(old.pages) + 1) /\ DOMAIN old.pages = 1..Len(old.pages)
          /\ new[Len(old.pages) + 1] = page /\ Len(old.pages) \in Nat
          /\ \A i \in DOMAIN old.pages : new[i] = old.pages[i]
      BY <1>2, <1>4, LenProperties
    <3>2. CASE p <= old.next
      <4>1. PICK i \in DOMAIN old.pages : p \in old.pages[i]
        BY <1>5, <1>9, <3>2 DEF Seg, WindowPoints
      <4>2. i \in DOMAIN new /\ p \in new[i]
        BY <3>1, <4>1
      <4> QED
        BY <1>6, <2>3, <4>2 DEF WindowPoints
    <3>3. CASE p > old.next
      <4>1. p \in page
        BY <1>1, <1>2, <1>5, <1>9, <3>3, <2>1
      <4>2. Len(old.pages) + 1 \in DOMAIN new /\ p \in new[Len(old.pages) + 1]
        BY <3>1, <4>1
      <4> QED
        BY <1>6, <2>3, <4>2 DEF WindowPoints
    <3> QED
      BY <1>4, <2>1, <3>2, <3>3
  <2> QED
    BY <2>2, <2>3
<1> QED
  BY <1>3, <1>6, <1>7, <1>8, <1>9 DEF Seg

\* Every wanted point of a window belongs to a group that is sent.
LEMMA GroupsCover ==
  ASSUME NEW win \in Windows, NEW p \in Wanted, p \in WindowPoints(win)
  PROVE  \E g \in Groups(win) : p \in g.pts
<1>1. PICK i \in DOMAIN win.pages : p \in win.pages[i]
  BY DEF WindowPoints
<1>2. PICK k \in Keys \cup {"unsharded"} : Class[p] = k
  BY WantedPoints
<1> DEFINE grp(j, l) == [page |-> j, key |-> l, pts |-> {q \in win.pages[j] : Class[q] = l}]
           all == {grp(j, l) : j \in DOMAIN win.pages, l \in Keys \cup {"unsharded"}}
<1>3. p \in grp(i, k).pts
  BY <1>1, <1>2
<1>4. Groups(win) = {g \in all : g.pts # {}}
  BY DEF Groups
<1> HIDE DEF grp
<1>5. grp(i, k) \in all
  BY <1>1, <1>2
<1> HIDE DEF all
<1>6. grp(i, k) \in Groups(win)
  BY <1>3, <1>4, <1>5
<1> QED
  BY <1>3, <1>6

\* What the consumer's window covers once nothing of it is left to send.
LEMMA SentWindow ==
  ASSUME TypeOK, PipelineInv, SentInv, MemCovered, pc = "ingest", WindowSent
  PROVE  \A p \in Wanted : p <= cons.win.next => p \in tgt.pts
<1>1. Seg(mem.cursor, cons.win) /\ cons.busy /\ ~cons.failed
      /\ cons.todo = {} /\ cons.inflight = {}
  BY DEF PipelineInv, WindowSent
<1>2. \A p \in Wanted \cap WindowPoints(cons.win) : p \in tgt.pts
  BY <1>1 DEF SentInv
<1>3. mem.cursor \in Nat /\ cons.win.next \in Nat
  BY PointsAreNaturals DEF TypeOK, Checkpoints, Windows
<1>4. ASSUME NEW p \in Wanted, p <= cons.win.next PROVE p \in tgt.pts
  <2>1. p \in Nat
    BY WantedPoints
  <2>2. CASE p <= mem.cursor
    BY <2>2 DEF MemCovered
  <2>3. CASE mem.cursor < p
    BY <1>1, <1>2, <1>4, <2>3, StartingPoints DEF Seg
  <2> QED
    BY <1>3, <2>1, <2>2, <2>3
<1> QED
  BY <1>4

\* A step that leaves the ingest alone keeps every cursor covered.
LEMMA CoverOutside ==
  ASSUME CoverInv, SourceInv', pc' # "ingest", tgt.pts \subseteq tgt'.pts,
         mem'.cursor \in {mem.cursor, Origin},
         cp'.phase = "none" \/ cp'.cursor = mem.cursor
           \/ (cp'.cursor = cp.cursor /\ cp.phase # "none")
  PROVE  CoverInv'
<1>1. MemCovered'
  BY WantedPoints DEF CoverInv, MemCovered, Origin
<1>2. CursorCovered'
  BY DEF CoverInv, CursorCovered, MemCovered
<1> QED
  BY <1>1, <1>2 DEF CoverInv, PipelineInv, SentInv

\* Emptying the target in the schema phase is harmless: no cursor has moved.
LEMMA CoverEmptied ==
  ASSUME SourceInv', pc' # "ingest", mem'.cursor = Origin, cp'.phase = "none"
  PROVE  CoverInv'
<1>1. MemCovered'
  BY WantedPoints DEF MemCovered, Origin
<1> QED
  BY <1>1 DEF CoverInv, PipelineInv, SentInv, CursorCovered

\* A run that enters the ingest starts its stream at the cursor in memory.
LEMMA CoverEntered ==
  ASSUME SourceInv', MemCovered', CursorCovered', mem'.cursor \in Cursors,
         prod' = Producer(mem'.cursor), chan' = <<>>, cons' = IdleConsumer
  PROVE  CoverInv'
<1>1. /\ ~cons'.busy /\ prod'.win.next = mem'.cursor /\ prod'.stream.after = mem'.cursor
      /\ ~prod'.stream.done /\ prod'.open
  BY DEF IdleConsumer, Producer, EmptyWindow, OpenAt
<1>2. ASSUME NEW p \in Initial, mem'.cursor < p, p <= mem'.cursor PROVE FALSE
  <2>1. p \in Nat /\ mem'.cursor \in Nat
    BY StartingPoints, PointsAreNaturals
  <2> QED
    BY <1>2, <2>1
<1>3. ProdFrom' = mem'.cursor
  BY <1>1 DEF ProdFrom, Before, ChanFrom
<1>4. PipelineInv'
  BY <1>1, <1>2, <1>3 DEF PipelineInv, Seg
<1> QED
  BY <1>1, <1>4 DEF CoverInv, SentInv

\* A step of the ingest that leaves the checkpoint and the source alone.
LEMMA CoverWithin ==
  ASSUME CoverInv, SourceInv', PipelineInv', SentInv', tgt.pts \subseteq tgt'.pts,
         UNCHANGED <<cp, mem>>
  PROVE  CoverInv'
BY DEF CoverInv, MemCovered, CursorCovered

LEMMA PipelineSend ==
  ASSUME TypeOK, PipelineInv, SendWindow
  PROVE  PipelineInv' /\ (OrderInv => OrderInv')
<1>1. /\ pc = "ingest" /\ prod.open /\ chan' = Append(chan, prod.win)
      /\ prod' = [prod EXCEPT !.win = EmptyWindow(prod.win.next)]
      /\ UNCHANGED <<cons, mem, pc>>
  BY DEF SendWindow, stores, control
<1>2. prod.win \in Windows /\ prod.win.next \in Nat /\ chan \in Seq(Windows)
  BY PointsAreNaturals DEF TypeOK, Windows
<1>3. /\ Len(chan) \in Nat /\ Len(chan') = Len(chan) + 1
      /\ chan'[Len(chan) + 1] = prod.win
      /\ \A i \in 1..Len(chan) : chan'[i] = chan[i]
  BY <1>1, <1>2, LenProperties
<1>4. \A i \in 1..(Len(chan) + 1) : Before(i)' = Before(i)
  BY <1>1, <1>3 DEF Before, ChanFrom
<1>5. ASSUME NEW i \in 1..Len(chan') PROVE Seg(Before(i)', chan'[i])
  <2>1. CASE i = Len(chan) + 1
    BY <1>1, <1>3, <1>4, <2>1 DEF PipelineInv, ProdFrom
  <2>2. CASE i \in 1..Len(chan)
    BY <1>1, <1>3, <1>4, <2>2 DEF PipelineInv
  <2> QED
    BY <1>3, <2>1, <2>2
<1>6. ProdFrom' = prod.win.next
  BY <1>3 DEF ProdFrom, Before
<1>7. /\ prod'.win = EmptyWindow(prod.win.next) /\ prod'.win.next = prod.win.next
      /\ prod'.stream = prod.stream /\ prod'.open
  BY <1>1 DEF TypeOK, EmptyWindow
<1>8. Seg(ProdFrom', prod'.win)
  BY <1>2, <1>6, <1>7, StartingPoints DEF Seg
<1>9. OrderInv => OrderInv'
  <2> SUFFICES ASSUME OrderInv PROVE OrderInv'
    OBVIOUS
  <2>1. ASSUME NEW i \in 1..Len(chan') PROVE Before(i)' <= chan'[i].next
    BY <1>1, <1>3, <1>4 DEF OrderInv, ProdFrom
  <2> QED
    BY <1>1, <1>2, <1>6, <1>7, <2>1 DEF OrderInv
<1> QED
  BY <1>1, <1>5, <1>7, <1>8, <1>9 DEF PipelineInv, Seg

LEMMA PipelineReceive ==
  ASSUME TypeOK, PipelineInv, ReceiveWindow
  PROVE  PipelineInv' /\ (OrderInv => OrderInv')
<1>1. /\ pc = "ingest" /\ ~cons.busy /\ chan # <<>> /\ chan' = Tail(chan)
      /\ cons'.busy /\ cons'.win = Head(chan)
      /\ UNCHANGED <<prod, mem, pc>>
  BY DEF ReceiveWindow, IdleConsumer, stores, control
<1>2. /\ Len(chan) \in Nat /\ Len(chan) >= 1 /\ Len(chan') = Len(chan) - 1
      /\ Head(chan) = chan[1]
      /\ \A i \in 1..Len(chan') : chan'[i] = chan[i + 1]
  BY <1>1, HeadTailProperties, LenProperties, EmptySeq DEF TypeOK
<1>3. \A i \in 1..(Len(chan') + 1) : Before(i)' = Before(i + 1)
  <2>1. Before(1)' = chan[1].next /\ Before(2) = chan[1].next
    BY <1>1, <1>2 DEF Before, ChanFrom
  <2>2. ASSUME NEW i \in 2..(Len(chan') + 1) PROVE Before(i)' = Before(i + 1)
    <3>1. i - 1 \in 1..Len(chan') /\ (i - 1) + 1 = i /\ i # 1 /\ i + 1 # 1 /\ (i + 1) - 1 = i
      BY <1>2
    <3>2. chan'[i - 1] = chan[i]
      BY <1>2, <3>1
    <3> QED
      BY <3>1, <3>2 DEF Before
  <2> QED
    BY <1>2, <2>1, <2>2
<1>4. ASSUME NEW i \in 1..Len(chan') PROVE Seg(Before(i)', chan'[i])
  <2>1. i + 1 \in 1..Len(chan)
    BY <1>2
  <2> QED
    BY <1>1, <1>2, <1>3, <2>1 DEF PipelineInv
<1>5. Seg(mem.cursor, cons'.win)
  BY <1>1, <1>2 DEF PipelineInv, Before, ChanFrom
<1>6. ProdFrom' = ProdFrom
  BY <1>2, <1>3 DEF ProdFrom
<1>7. OrderInv => OrderInv'
  <2> SUFFICES ASSUME OrderInv PROVE OrderInv'
    OBVIOUS
  <2>1. ASSUME NEW i \in 1..Len(chan') PROVE Before(i)' <= chan'[i].next
    <3>1. i + 1 \in 1..Len(chan) /\ i \in 1..(Len(chan') + 1)
      BY <1>2
    <3> QED
      BY <1>1, <1>2, <1>3, <3>1 DEF OrderInv
  <2>2. mem.cursor <= cons'.win.next
    BY <1>1, <1>2 DEF OrderInv, Before, ChanFrom
  <2> QED
    BY <1>1, <1>6, <2>1, <2>2 DEF OrderInv
<1> QED
  BY <1>1, <1>4, <1>5, <1>6, <1>7 DEF PipelineInv, Seg

LEMMA CoverInit == Init => CoverInv
<1> SUFFICES ASSUME Init PROVE CoverInv
  OBVIOUS
<1>1. MemCovered
  BY WantedPoints DEF Init, MemCovered, NoCheckpoint, Origin
<1> QED
  BY <1>1 DEF Init, CoverInv, PipelineInv, SentInv, SourceInv, CursorCovered, NoCheckpoint,
              SchemaSteps

LEMMA CoverStep ==
  ASSUME TypeOK, ControlInv, CoverInv, [Next]_vars
  PROVE  CoverInv'
<1>0. SourceInv'
  BY SourceStep DEF CoverInv
<1> USE <1>0
<1>1. CASE UNCHANGED vars
  BY <1>1 DEF vars, CoverInv, PipelineInv, SentInv, MemCovered, CursorCovered, Seg, ProdFrom,
              Before, ChanFrom
<1>2. ASSUME NEW r, Halt(r), UNCHANGED tgt, cp' \in {cp, NoCheckpoint, mem} PROVE CoverInv'
  <2>1. pc' # "ingest" /\ mem'.cursor = Origin
    BY <1>2 DEF Halt, NoCheckpoint
  <2> QED
    BY <1>2, <2>1, CoverOutside DEF NoCheckpoint
<1>3. ASSUME FailIngest, UNCHANGED <<tgt, cp>> PROVE CoverInv'
  BY <1>3, CoverOutside DEF FailIngest
<1>4. ASSUME NEW o \in Options, StartFresh(o) PROVE CoverInv'
  <2>1. mem'.cursor = Origin /\ cp'.phase = "none" /\ pc' # "ingest" /\ UNCHANGED tgt
    BY <1>4 DEF StartFresh, BeginRun, Fresh, NewCheckpoint, NoCheckpoint
  <2> QED
    BY <2>1, CoverEmptied
<1>5. ASSUME NEW o \in Options, StartResumed(o) PROVE CoverInv'
  <2>1. /\ cp' = cp /\ mem' = cp /\ prod' = Producer(mem'.cursor) /\ cp.phase # "none"
        /\ UNCHANGED <<tgt, chan, cons>> /\ pc = "idle"
    BY <1>5 DEF StartResumed, BeginRun, Accepted, Resumable
  <2>2. chan' = <<>> /\ cons' = IdleConsumer
    BY <2>1 DEF ControlInv, QuietInv
  <2>3. MemCovered' /\ CursorCovered' /\ mem'.cursor \in Cursors
    BY <2>1 DEF CoverInv, CursorCovered, MemCovered, TypeOK, Checkpoints
  <2> QED
    BY <2>1, <2>2, <2>3, CoverEntered
<1>6. ASSUME NEW o \in Options, StartRefused(o) \/ FailStart(o) PROVE CoverInv'
  <2>1. pc' # "ingest" /\ UNCHANGED <<cp, tgt, mem>>
    BY <1>6 DEF StartRefused, FailStart, stores
  <2> QED
    BY <2>1, CoverOutside
<1>7. CASE DropTarget \/ CreateTarget
  <2>1. mem'.cursor = Origin /\ cp'.phase = "none" /\ pc' # "ingest"
    BY <1>7 DEF DropTarget, CreateTarget, Goto, ControlInv, SchemaInv, SchemaSteps
  <2> QED
    BY <2>1, CoverEmptied
<1>8. CASE KeepTarget
  <2>1. pc' # "ingest" /\ UNCHANGED <<cp, tgt, mem>>
    BY <1>8 DEF KeepTarget, Goto, stores
  <2> QED
    BY <2>1, CoverOutside
<1>9. CASE CreateShardKeys
  <2>1. mem'.cursor = Origin /\ cp'.phase = "none" /\ pc' # "ingest"
    BY <1>9 DEF CreateShardKeys, Goto, ControlInv, SchemaInv, SchemaSteps, TypeOK, Checkpoints
  <2> QED
    BY <2>1, CoverEmptied
<1>10. CASE SaveIngest
  <2>1. /\ cp' = mem /\ mem' = mem /\ mem.cursor = Origin /\ prod' = Producer(Origin)
        /\ UNCHANGED <<tgt, chan, cons>> /\ chan = <<>> /\ cons = IdleConsumer
    BY <1>10 DEF SaveIngest, Goto, pipeline, ControlInv, SchemaInv, SchemaSteps, QuietInv
  <2>2. MemCovered' /\ CursorCovered' /\ mem'.cursor \in Cursors
    BY <2>1 DEF CoverInv, CursorCovered, MemCovered, TypeOK, Checkpoints
  <2> QED
    BY <2>1, <2>2, CoverEntered
<1>11. CASE FetchPage
  <2>1. UNCHANGED <<tgt, cp, mem, chan, cons, pc, src>> /\ pc = "ingest"
    BY <1>11 DEF FetchPage, stores, control
  <2>2. ProdFrom' = ProdFrom /\ \A i \in 1..Len(chan) : Before(i)' = Before(i)
    BY <2>1 DEF ProdFrom, Before, ChanFrom
  <2>3. /\ Seg(ProdFrom, prod'.win) /\ prod'.win.next = prod'.stream.after
        /\ prod'.stream.done => \A p \in Initial : p <= prod'.stream.after
        /\ prod'.open
    BY <1>11, FetchCovers DEF CoverInv
  <2>4. PipelineInv'
    BY <2>1, <2>2, <2>3 DEF CoverInv, PipelineInv, Seg
  <2>5. SentInv'
    BY <2>1 DEF CoverInv, SentInv
  <2> QED
    BY <2>1, <2>4, <2>5, CoverWithin
<1>12. CASE SendWindow
  <2>1. UNCHANGED <<tgt, cp, mem, cons, pc>>
    BY <1>12 DEF SendWindow, stores, control
  <2>2. PipelineInv'
    BY <1>12, PipelineSend DEF CoverInv
  <2>3. SentInv'
    BY <2>1 DEF CoverInv, SentInv
  <2> QED
    BY <2>1, <2>2, <2>3, CoverWithin
<1>13. CASE CloseChannel
  <2>1. /\ UNCHANGED <<tgt, cp, mem, chan, cons, pc>>
        /\ prod.stream.done /\ prod.win.pages = <<>>
        /\ prod'.win = prod.win /\ prod'.stream = prod.stream
    BY <1>13 DEF CloseChannel, stores, control, TypeOK
  <2>2. PipelineInv'
    BY <2>1 DEF CoverInv, PipelineInv, Seg, ProdFrom, Before, ChanFrom
  <2>3. SentInv'
    BY <2>1 DEF CoverInv, SentInv
  <2> QED
    BY <2>1, <2>2, <2>3, CoverWithin
<1>14. CASE ReceiveWindow
  <2>1. /\ UNCHANGED <<tgt, cp, mem, pc>> /\ chan \in Seq(Windows) /\ chan # <<>>
        /\ cons'.win = Head(chan) /\ cons'.todo = Groups(Head(chan))
    BY <1>14 DEF ReceiveWindow, stores, control, TypeOK, IdleConsumer
  <2>2. PipelineInv'
    BY <1>14, PipelineReceive DEF CoverInv
  <2>3. Head(chan) \in Windows
    BY <2>1, HeadTailProperties
  <2>4. \A p \in Wanted \cap WindowPoints(cons'.win) : \E g \in cons'.todo : p \in g.pts
    BY <2>1, <2>3, GroupsCover
  <2>5. SentInv'
    BY <2>4 DEF SentInv, WindowPoints
  <2> QED
    BY <2>1, <2>2, <2>5, CoverWithin
<1>15. CASE RejectWindow \/ FailWindow \/ InterruptIngest
  BY <1>3, <1>15 DEF RejectWindow, FailWindow, InterruptIngest, stores
<1>16. ASSUME UNCHANGED <<cp, mem, pc, prod, chan>>, tgt.pts \subseteq tgt'.pts,
              cons'.busy = cons.busy, cons'.win = cons.win,
              cons'.failed \/ \A g \in cons.todo \cup cons.inflight :
                  g \in cons'.todo \cup cons'.inflight \/ g.pts \subseteq tgt'.pts,
              cons.failed => cons'.failed
       PROVE  CoverInv'
  <2>1. PipelineInv'
    BY <1>16 DEF CoverInv, PipelineInv, Seg, ProdFrom, Before, ChanFrom
  <2>2. SentInv'
    BY <1>16 DEF CoverInv, SentInv, WindowPoints
  <2> QED
    BY <1>16, <2>1, <2>2, CoverWithin
<1>17. CASE EnsureShardKey
  <2>1. UNCHANGED <<cp, mem, pc, prod, chan, cons>> /\ tgt'.pts = tgt.pts
    BY <1>17 DEF EnsureShardKey, control, pipeline, TypeOK
  <2> QED
    BY <1>16, <2>1
<1>18. CASE IssueChunk
  <2>1. PICK chunk \in SUBSET cons.todo :
          cons' = [cons EXCEPT !.todo = @ \ chunk, !.inflight = chunk]
    BY <1>18 DEF IssueChunk
  <2>2. UNCHANGED <<cp, mem, pc, prod, chan, tgt>> /\ cons.inflight = {}
    BY <1>18 DEF IssueChunk, stores, control
  <2>3. /\ cons'.busy = cons.busy /\ cons'.win = cons.win /\ cons'.failed = cons.failed
        /\ cons'.todo = cons.todo \ chunk /\ cons'.inflight = chunk
    BY <2>1 DEF TypeOK
  <2> QED
    BY <1>16, <2>2, <2>3
<1>19. ASSUME NEW g \in cons.inflight, UpsertDone(g) \/ UpsertRejected(g) \/ UpsertLost(g)
       PROVE  CoverInv'
  <2>1. UNCHANGED <<cp, mem, pc, prod, chan>>
    BY <1>19 DEF UpsertDone, UpsertRejected, UpsertLost, stores, control
  <2>2. /\ cons'.busy = cons.busy /\ cons'.win = cons.win /\ cons'.todo = cons.todo
        /\ cons'.inflight = cons.inflight \ {g}
    BY <1>19 DEF UpsertDone, UpsertRejected, UpsertLost, TypeOK
  <2>3. CASE UpsertDone(g)
    <3>1. tgt'.pts = tgt.pts \cup g.pts /\ cons'.failed = cons.failed
      BY <2>3 DEF UpsertDone, TypeOK
    <3> QED
      BY <1>16, <2>1, <2>2, <3>1
  <2>4. CASE UpsertRejected(g) \/ UpsertLost(g)
    <3>1. tgt.pts \subseteq tgt'.pts /\ cons'.failed
      <4>1. CASE UpsertRejected(g)
        BY <4>1 DEF UpsertRejected, TypeOK, stores
      <4>2. CASE UpsertLost(g)
        <5>1. PICK applied \in SUBSET g.pts : tgt' = [tgt EXCEPT !.pts = @ \cup applied]
          BY <4>2 DEF UpsertLost
        <5> QED
          BY <4>2, <5>1 DEF UpsertLost, TypeOK
      <4> QED
        BY <2>4, <4>1, <4>2
    <3> QED
      BY <1>16, <2>1, <2>2, <3>1
  <2> QED
    BY <1>19, <2>3, <2>4
<1>20. CASE CommitWindow
  <2>1. /\ pc = "ingest" /\ WindowSent /\ mem' = Counted(cons.win) /\ cp' = mem'
        /\ cons' = IdleConsumer /\ UNCHANGED <<tgt, prod, chan, pc>>
    BY <1>20 DEF CommitWindow, control
  <2>2. mem'.cursor = cons.win.next
    BY <2>1, CountedType DEF TypeOK
  <2>3. \A p \in Wanted : p <= mem'.cursor => p \in tgt.pts
    BY <2>1, <2>2, SentWindow DEF CoverInv
  <2>4. cons.busy /\ ~cons'.busy
    BY <2>1 DEF WindowSent, IdleConsumer
  <2>5. ChanFrom' = ChanFrom
    BY <2>2, <2>4 DEF ChanFrom
  <2>6. ProdFrom' = ProdFrom /\ \A i \in 1..Len(chan) : Before(i)' = Before(i)
    BY <2>1, <2>5 DEF ProdFrom, Before
  <2>7. PipelineInv'
    BY <2>1, <2>4, <2>6 DEF CoverInv, PipelineInv, Seg
  <2>8. SentInv'
    BY <2>4 DEF SentInv
  <2> QED
    BY <2>1, <2>3, <2>7, <2>8 DEF CoverInv, MemCovered, CursorCovered
<1>21. CASE LoseWindowSave
  <2>1. /\ pc = "ingest" /\ WindowSent /\ mem' = Counted(cons.win)
        /\ UNCHANGED <<tgt, cp>> /\ pc' = "decide"
    BY <1>21 DEF LoseWindowSave, stores
  <2>2. mem'.cursor = cons.win.next
    BY <2>1, CountedType DEF TypeOK
  <2>3. MemCovered'
    BY <2>1, <2>2, SentWindow DEF CoverInv, MemCovered
  <2>4. CursorCovered'
    BY <2>1 DEF CoverInv, CursorCovered
  <2> QED
    BY <2>1, <2>3, <2>4 DEF CoverInv, PipelineInv, SentInv
<1>22. CASE FinishIngest \/ LoseIngestSave
  <2>1. /\ mem'.cursor = mem.cursor /\ cp' \in {cp, mem'} /\ UNCHANGED tgt /\ pc' # "ingest"
    BY <1>22 DEF FinishIngest, LoseIngestSave, Goto, stores, TypeOK, Checkpoints
  <2> QED
    BY <2>1, CoverOutside
<1>23. CASE Decide
  <2>1. CASE Halt("error")
    BY <1>2, <1>23, <2>1 DEF Decide, stores
  <2>2. CASE UNCHANGED mem
    <3>1. pc' # "ingest" /\ UNCHANGED <<cp, tgt>>
      BY <1>23 DEF Decide, Halt, ControlInv, PhaseInv, AfterIngest, stores
    <3> QED
      BY <2>2, <3>1, CoverOutside
  <2> QED
    BY <1>23, <2>1, <2>2 DEF Decide
<1>24. CASE RestoreOptimizers \/ Verify \/ CutoverAlias \/ DropSource \/ SaveDone
  <2>1. mem'.cursor = mem.cursor /\ cp' \in {cp, mem'} /\ tgt'.pts = tgt.pts /\ pc' # "ingest"
    BY <1>24 DEF RestoreOptimizers, Verify, CutoverAlias, DropSource, SaveDone, Goto,
                 TypeOK, Checkpoints
  <2> QED
    BY <2>1, CoverOutside
<1>25. CASE SaveVerify
  <2>1. CASE Halt("error")
    BY <1>2, <1>25, <2>1 DEF SaveVerify
  <2>2. CASE pc' = "verify" /\ UNCHANGED mem
    BY <1>25, <2>2, CoverOutside DEF SaveVerify
  <2> QED
    BY <1>25, <2>1, <2>2 DEF SaveVerify
<1>26. CASE CountMismatch \/ Crash \/ RemoveCheckpoint
  BY <1>2, <1>26 DEF CountMismatch, Crash, RemoveCheckpoint, stores
<1>27. CASE FailStep
  <2>1. Halt("error") /\ cp' = cp
    BY <1>27 DEF FailStep, stores
  <2>2. pc' # "ingest" /\ mem'.cursor = Origin
    BY <2>1 DEF Halt, NoCheckpoint
  <2>3. CASE pc \in {"schema", "create"}
    BY <2>1, <2>2, <2>3, CoverEmptied DEF ControlInv, SchemaInv, SchemaSteps
  <2>4. CASE pc \notin {"schema", "create"}
    <3>1. tgt.pts \subseteq tgt'.pts
      BY <1>27, <2>4 DEF FailStep, stores, TypeOK
    <3> QED
      BY <2>1, <2>2, <3>1, CoverOutside
  <2> QED
    BY <2>3, <2>4
<1>28. ASSUME NEW p \in Late, WriteSource(p) PROVE CoverInv'
  BY <1>28 DEF WriteSource, control, pipeline, CoverInv, PipelineInv, SentInv, MemCovered,
               CursorCovered, Seg, ProdFrom, Before, ChanFrom
<1> QED
  BY <1>1, <1>4, <1>5, <1>6, <1>7, <1>8, <1>9, <1>10, <1>11, <1>12, <1>13, <1>14, <1>15, <1>17,
     <1>18, <1>19, <1>20, <1>21, <1>22, <1>23, <1>24, <1>25, <1>26, <1>27, <1>28
     DEF Next, Operator, Sequence, Produce, Consume, Upsert, Failure

LEMMA InvInit == Init => Inv
BY TypeInit, ControlInit, CoverInit DEF Inv

LEMMA InvStep == Inv /\ [Next]_vars => Inv'
BY TypeStep, ControlStep, CoverStep DEF Inv

\* A saved cursor never runs ahead of the target: for every number of points,
\* batch size, window size, set of options (fast bulk included) and faults.
THEOREM CursorNeverAhead == Spec => []CursorCovered
<1>1. Inv => CursorCovered
  BY DEF Inv, CoverInv
<1>2. Spec => []Inv
  BY InvInit, InvStep, PTL DEF Spec
<1> QED
  BY <1>1, <1>2, PTL

-----------------------------------------------------------------------------
(* The checkpoint only moves forward, and its counters keep up.            *)

\* How a step moves the checkpoint in memory, and what it saves of it.
Rests == UNCHANGED <<cp, mem>> /\ (pc = "idle" => pc' = "idle")

Ends ==
  /\ pc' = "idle" /\ mem' = NoCheckpoint
  /\ cp' \in {cp, NoCheckpoint} \/ (pc # "idle" /\ cp' = mem)

Begins == mem'.phase = "schema" /\ mem'.cursor = Origin /\ mem'.written = 0 /\ mem'.skipped = 0
            /\ cp'.phase = "none"

Resumes == cp' = cp /\ mem' = cp /\ cp.phase # "none"

Turns ==
  /\ pc # "idle" /\ cp' \in {cp, mem'}
  /\ UNCHANGED <<mem.cursor, mem.written, mem.skipped>> /\ mem'.phase \in SavedPhases
  /\ mem.phase \in SavedPhases => Rank[mem'.phase] >= Rank[mem.phase]

Counts == pc = "ingest" /\ WindowSent /\ mem' = Counted(cons.win) /\ cp' \in {cp, mem'}

LEMMA CheckpointMoves ==
  ASSUME TypeOK, ControlInv, [Next]_vars
  PROVE  Rests \/ Ends \/ Begins \/ Resumes \/ Turns \/ Counts
<1>1. CASE UNCHANGED vars
  BY <1>1 DEF vars, Rests
<1>2. ASSUME NEW o \in Options, StartFresh(o) PROVE Begins
  BY <1>2 DEF StartFresh, BeginRun, Fresh, NewCheckpoint, NoCheckpoint, Begins
<1>3. ASSUME NEW o \in Options, StartResumed(o) PROVE Resumes
  BY <1>3 DEF StartResumed, BeginRun, Accepted, Resumable, Resumes
<1>4. ASSUME NEW o \in Options, StartRefused(o) \/ FailStart(o) PROVE Rests
  BY <1>4 DEF StartRefused, FailStart, stores, Rests
<1>5. CASE DropTarget \/ CreateTarget \/ KeepTarget
  BY <1>5 DEF DropTarget, CreateTarget, KeepTarget, stores, Rests
<1>6. CASE CreateShardKeys
  <2>1. mem.phase \notin SavedPhases
    BY <1>6 DEF CreateShardKeys, ControlInv, SchemaInv, SchemaSteps, SavedPhases
  <2> QED
    BY <1>6, <2>1 DEF CreateShardKeys, TypeOK, Checkpoints, SavedPhases, Turns
<1>7. CASE SaveIngest
  <2>1. mem.phase = "ingest"
    BY <1>7 DEF SaveIngest, ControlInv, SchemaInv, SchemaSteps
  <2> QED
    BY <1>7, <2>1 DEF SaveIngest, SavedPhases, Rank, Turns
<1>8. CASE FetchPage \/ SendWindow \/ CloseChannel \/ ReceiveWindow \/ EnsureShardKey \/ IssueChunk
  BY <1>8 DEF FetchPage, SendWindow, CloseChannel, ReceiveWindow, EnsureShardKey, IssueChunk,
              stores, Rests
<1>9. CASE RejectWindow \/ FailWindow \/ InterruptIngest
  BY <1>9 DEF RejectWindow, FailWindow, InterruptIngest, FailIngest, stores, Rests
<1>10. ASSUME NEW g \in cons.inflight, UpsertDone(g) \/ UpsertRejected(g) \/ UpsertLost(g)
       PROVE  Rests
  BY <1>10 DEF UpsertDone, UpsertRejected, UpsertLost, stores, Rests
<1>11. CASE CommitWindow \/ LoseWindowSave
  BY <1>11 DEF CommitWindow, LoseWindowSave, stores, Counts
<1>12. CASE FinishIngest \/ LoseIngestSave
  <2>1. /\ mem.phase = "ingest" /\ pc # "idle" /\ cp' \in {cp, mem'}
        /\ mem' = [mem EXCEPT !.phase = IF opts.fast THEN "optimize" ELSE "verify"]
    BY <1>12 DEF FinishIngest, LoseIngestSave, ControlInv, PhaseInv, stores
  <2>2. /\ UNCHANGED <<mem.cursor, mem.written, mem.skipped>>
        /\ mem'.phase \in {"optimize", "verify"}
    BY <2>1 DEF TypeOK, Checkpoints
  <2> QED
    BY <2>1, <2>2 DEF SavedPhases, Rank, Turns
<1>13. CASE Decide
  BY <1>13 DEF Decide, Halt, stores, Rests, Ends
<1>14. CASE RestoreOptimizers
  <2>1. /\ mem.phase \in {"ingest", "optimize"} /\ pc # "idle" /\ cp' = cp
        /\ mem' = [mem EXCEPT !.phase = "verify"]
    BY <1>14 DEF RestoreOptimizers, ControlInv, PhaseInv
  <2> QED
    BY <2>1 DEF TypeOK, Checkpoints, SavedPhases, Rank, Turns
<1>15. CASE SaveVerify
  <2>1. mem.phase = "verify" /\ cp' = mem /\ pc # "idle"
    BY <1>15 DEF SaveVerify, ControlInv, PhaseInv
  <2>2. CASE Halt("error")
    BY <2>1, <2>2 DEF Halt, Ends
  <2>3. CASE UNCHANGED mem
    BY <2>1, <2>3 DEF SavedPhases, Rank, Turns
  <2> QED
    BY <1>15, <2>2, <2>3 DEF SaveVerify
<1>16. CASE Verify
  <2>1. /\ mem.phase = "verify" /\ pc # "idle" /\ cp' = mem'
        /\ mem' = [mem EXCEPT !.phase = IF opts.cutover THEN "cutover" ELSE "done"]
    BY <1>16 DEF Verify, ControlInv, PhaseInv
  <2>2. /\ UNCHANGED <<mem.cursor, mem.written, mem.skipped>>
        /\ mem'.phase \in {"cutover", "done"}
    BY <2>1 DEF TypeOK, Checkpoints
  <2> QED
    BY <2>1, <2>2 DEF SavedPhases, Rank, Turns
<1>17. CASE CountMismatch \/ Crash \/ RemoveCheckpoint \/ FailStep
  BY <1>17 DEF CountMismatch, Crash, RemoveCheckpoint, FailStep, Halt, stores, Ends
<1>18. CASE CutoverAlias \/ DropSource
  BY <1>18 DEF CutoverAlias, DropSource, Rests
<1>19. CASE SaveDone
  <2>1. mem.phase = "cutover" /\ pc # "idle" /\ cp' = mem' /\ mem' = [mem EXCEPT !.phase = "done"]
    BY <1>19 DEF SaveDone, ControlInv, PhaseInv
  <2> QED
    BY <2>1 DEF TypeOK, Checkpoints, SavedPhases, Rank, Turns
<1>20. ASSUME NEW p \in Late, WriteSource(p) PROVE Rests
  BY <1>20 DEF WriteSource, Rests
<1> QED
  BY <1>1, <1>2, <1>3, <1>4, <1>5, <1>6, <1>7, <1>8, <1>9, <1>10, <1>11, <1>12, <1>13, <1>14,
     <1>15, <1>16, <1>17, <1>18, <1>19, <1>20
     DEF Next, Operator, Sequence, Produce, Consume, Upsert, Failure

\* The stored cursors of a well-typed state are numbers.
LEMMA CursorsAreNumbers ==
  ASSUME TypeOK
  PROVE  /\ mem.cursor \in Nat /\ cp.cursor \in Nat /\ cons.win.next \in Nat
         /\ prod.win.next \in Nat /\ prod.win.next \in Cursors
         /\ \A i \in 1..Len(chan) : chan[i].next \in Nat
<1>1. prod.win \in Windows /\ cons.win \in Windows /\ chan \in Seq(Windows)
  BY DEF TypeOK
<1>2. \A i \in 1..Len(chan) : chan[i] \in Windows
  BY <1>1, LenProperties
<1> QED
  BY <1>1, <1>2, PointsAreNaturals DEF TypeOK, Checkpoints, Windows

LEMMA OrderStep ==
  ASSUME TypeOK, ControlInv, PipelineInv, SourceInv, OrderInv, [Next]_vars
  PROVE  OrderInv'
<1>1. ASSUME pc' = "ingest" => UNCHANGED <<pc, mem, prod.win, chan, cons.busy, cons.win>>
      PROVE  OrderInv'
  BY <1>1 DEF OrderInv, ProdFrom, Before, ChanFrom
<1>2. CASE UNCHANGED vars
  BY <1>1, <1>2 DEF vars
<1>3. ASSUME mem'.cursor \in Nat, prod' = Producer(mem'.cursor), chan' = <<>>,
             cons' = IdleConsumer
      PROVE  OrderInv'
  <2>1. ~cons'.busy /\ prod'.win.next = mem'.cursor
    BY <1>3 DEF IdleConsumer, Producer, EmptyWindow
  <2>2. ProdFrom' = mem'.cursor
    BY <1>3, <2>1 DEF ProdFrom, Before, ChanFrom
  <2> QED
    BY <1>3, <2>1, <2>2 DEF OrderInv
<1>4. ASSUME NEW o \in Options, StartFresh(o) \/ StartResumed(o) \/ StartRefused(o) \/ FailStart(o)
      PROVE  OrderInv'
  <2>1. CASE StartResumed(o)
    <3>1. /\ mem' = cp /\ prod' = Producer(mem'.cursor) /\ UNCHANGED <<chan, cons>> /\ pc = "idle"
      BY <2>1 DEF StartResumed, BeginRun
    <3> QED
      BY <1>3, <3>1, CursorsAreNumbers DEF ControlInv, QuietInv
  <2>2. CASE StartFresh(o) \/ StartRefused(o) \/ FailStart(o)
    BY <1>1, <2>2 DEF StartFresh, BeginRun, NewCheckpoint, NoCheckpoint, StartRefused, FailStart
  <2> QED
    BY <1>4, <2>1, <2>2
<1>5. CASE DropTarget \/ CreateTarget \/ KeepTarget \/ CreateShardKeys
  BY <1>1, <1>5 DEF DropTarget, CreateTarget, KeepTarget, CreateShardKeys, Goto
<1>6. CASE SaveIngest
  <2>1. /\ mem' = mem /\ mem.cursor = Origin /\ prod' = Producer(Origin)
        /\ chan' = <<>> /\ cons' = IdleConsumer
    BY <1>6 DEF SaveIngest, Goto, pipeline, ControlInv, SchemaInv, SchemaSteps, QuietInv
  <2> QED
    BY <1>3, <2>1, CursorsAreNumbers
<1>7. CASE FetchPage
  <2> DEFINE page == Page(prod.stream, src.pts)
             next == Advance(prod.stream, src.pts)
  <2>1. prod.stream \in Streams /\ src.pts \in SUBSET Points
    BY DEF TypeOK
  <2>2. next \in Streams /\ next.after >= prod.stream.after
    BY <2>1, AdvanceCovers
  <2>3. /\ UNCHANGED <<pc, mem, chan, cons>> /\ pc = "ingest"
        /\ prod' = [prod EXCEPT
             !.stream = next,
             !.win = IF page = {} THEN @
                     ELSE [next |-> next.after, pages |-> Append(@.pages, page)]]
    BY <1>7 DEF FetchPage
  <2> HIDE DEF page, next
  <2>4. prod'.win = IF page = {} THEN prod.win
                    ELSE [next |-> next.after, pages |-> Append(prod.win.pages, page)]
    BY <2>3 DEF TypeOK
  <2>5. prod.win.next = prod.stream.after
    BY <2>3 DEF PipelineInv
  <2>6. prod'.win.next >= prod.win.next /\ prod'.win.next \in Nat
    <3>1. next.after \in Nat
      BY <2>2, PointsAreNaturals DEF Streams
    <3>2. CASE page = {}
      BY <2>4, <3>2, CursorsAreNumbers
    <3>3. CASE page # {}
      <4>1. prod'.win.next = next.after
        BY <2>4, <3>3
      <4> QED
        BY <2>2, <2>5, <3>1, <4>1
    <3> QED
      BY <3>2, <3>3
  <2>7. ProdFrom \in Nat
    BY CursorsAreNumbers, LenProperties DEF ProdFrom, Before, ChanFrom, TypeOK
  <2>8. ProdFrom' = ProdFrom /\ \A i \in 1..Len(chan) : Before(i)' = Before(i)
    BY <2>3 DEF ProdFrom, Before, ChanFrom
  <2>9. ProdFrom <= prod'.win.next
    BY <2>3, <2>6, <2>7, CursorsAreNumbers DEF OrderInv
  <2> QED
    BY <2>3, <2>8, <2>9 DEF OrderInv
<1>8. CASE SendWindow
  BY <1>8, PipelineSend
<1>9. CASE ReceiveWindow
  BY <1>9, PipelineReceive
<1>10. CASE CloseChannel
  BY <1>1, <1>10 DEF CloseChannel, TypeOK
<1>11. CASE EnsureShardKey \/ IssueChunk
  BY <1>1, <1>11 DEF EnsureShardKey, IssueChunk, pipeline, TypeOK
<1>12. ASSUME NEW g \in cons.inflight, UpsertDone(g) \/ UpsertRejected(g) \/ UpsertLost(g)
       PROVE  OrderInv'
  BY <1>1, <1>12 DEF UpsertDone, UpsertRejected, UpsertLost, TypeOK
<1>13. CASE CommitWindow
  <2>1. /\ pc = "ingest" /\ WindowSent /\ mem' = Counted(cons.win)
        /\ cons' = IdleConsumer /\ UNCHANGED <<prod, chan, pc>>
    BY <1>13 DEF CommitWindow
  <2>2. mem'.cursor = cons.win.next /\ cons.busy /\ ~cons'.busy
    BY <2>1, CountedType DEF TypeOK, WindowSent, IdleConsumer
  <2>3. ChanFrom' = ChanFrom
    BY <2>2 DEF ChanFrom
  <2>4. ProdFrom' = ProdFrom /\ \A i \in 1..Len(chan) : Before(i)' = Before(i)
    BY <2>1, <2>3 DEF ProdFrom, Before
  <2> QED
    BY <2>1, <2>2, <2>4 DEF OrderInv
<1>14. CASE RejectWindow \/ FailWindow \/ InterruptIngest \/ LoseWindowSave \/ LoseIngestSave
            \/ FinishIngest
  BY <1>1, <1>14 DEF RejectWindow, FailWindow, InterruptIngest, FailIngest, LoseWindowSave,
                     LoseIngestSave, FinishIngest, Goto
<1>15. CASE Decide
  <2>1. pc' # "ingest"
    BY <1>15 DEF Decide, Halt, ControlInv, PhaseInv, AfterIngest
  <2> QED
    BY <1>1, <2>1
<1>16. CASE RestoreOptimizers \/ SaveVerify \/ Verify \/ CountMismatch \/ CutoverAlias
            \/ DropSource \/ SaveDone \/ RemoveCheckpoint \/ Crash \/ FailStep
  BY <1>1, <1>16 DEF RestoreOptimizers, SaveVerify, Verify, CountMismatch, CutoverAlias,
                     DropSource, SaveDone, RemoveCheckpoint, Crash, FailStep, Goto, Halt
<1>17. ASSUME NEW p \in Late, WriteSource(p) PROVE OrderInv'
  BY <1>1, <1>17 DEF WriteSource, pipeline
<1> QED
  BY <1>2, <1>4, <1>5, <1>6, <1>7, <1>8, <1>9, <1>10, <1>11, <1>12, <1>13, <1>14, <1>15, <1>16,
     <1>17
     DEF Next, Operator, Sequence, Produce, Consume, Upsert, Failure

\* The points up to a window's cursor: those up to the last one, and the window's.
LEMMA CountedCovers ==
  ASSUME TypeOK, MemCounted, PipelineInv, pc = "ingest", WindowSent, mem' = Counted(cons.win)
  PROVE  MemCounted'
<1> DEFINE win == cons.win
           Old == {p \in Initial : p <= mem.cursor}
           New == {p \in Initial : p <= win.next}
<1>1. win \in Windows /\ mem \in Checkpoints /\ Seg(mem.cursor, win)
  BY DEF TypeOK, PipelineInv, WindowSent
<1>2. /\ WindowPoints(win) \in SUBSET Points /\ Skipped(win) \subseteq WindowPoints(win)
      /\ Old \in SUBSET Points /\ New \in SUBSET Points
  BY <1>1, WindowPointsType, StartingPoints DEF Skipped
<1>3. /\ IsFiniteSet(WindowPoints(win)) /\ IsFiniteSet(Skipped(win))
      /\ IsFiniteSet(Old) /\ IsFiniteSet(New) /\ IsFiniteSet(WindowPoints(win) \ Skipped(win))
  BY <1>2, PointSetsFinite, FS_Subset
<1>4. New \subseteq Old \cup WindowPoints(win)
  BY <1>1, StartingPoints, CursorsAreNumbers DEF Seg
<1> DEFINE w == Cardinality(WindowPoints(win) \ Skipped(win))
           k == Cardinality(Skipped(win))
           both == Cardinality(WindowPoints(win))
<1>5. w \in Nat /\ k \in Nat /\ both \in Nat /\ Cardinality(Old) \in Nat /\ Cardinality(New) \in Nat
  BY <1>3, FS_CardinalityType
<1>6. both = w + k
  <2>1. WindowPoints(win) \ Skipped(win) = WindowPoints(win) \ (WindowPoints(win) \cap Skipped(win))
    OBVIOUS
  <2>2. w = both - Cardinality(WindowPoints(win) \cap Skipped(win))
    BY <1>3, FS_Difference
  <2>3. WindowPoints(win) \cap Skipped(win) = Skipped(win)
    BY <1>2
  <2>4. w = both - k
    BY <2>2, <2>3
  <2> HIDE DEF w, k, both
  <2> QED
    BY <1>5, <2>4
<1>7. Cardinality(New) <= Cardinality(Old) + both
  <2>1. /\ IsFiniteSet(Old \cup WindowPoints(win))
        /\ Cardinality(Old \cup WindowPoints(win))
             = Cardinality(Old) + both - Cardinality(Old \cap WindowPoints(win))
    BY <1>3, FS_Union
  <2>2. Cardinality(New) <= Cardinality(Old \cup WindowPoints(win))
    BY <1>4, <2>1, FS_Subset
  <2>3. Cardinality(Old \cap WindowPoints(win)) \in Nat
    BY <1>3, FS_Intersection, FS_CardinalityType
  <2> QED
    BY <1>5, <2>1, <2>2, <2>3
<1>8. /\ mem'.written = mem.written + w /\ mem'.skipped = mem.skipped + k
      /\ mem'.cursor = win.next
  BY <1>1 DEF Counted, Checkpoints
<1>9. mem.written \in Nat /\ mem.skipped \in Nat /\ mem.written + mem.skipped >= Cardinality(Old)
  BY <1>1 DEF Checkpoints, MemCounted
<1>10. Cardinality(New) = Cardinality({p \in Initial : p <= mem'.cursor})
  BY <1>8
<1> HIDE DEF w, k, both, Old, New
<1>11. mem'.written + mem'.skipped >= Cardinality(New)
  BY <1>5, <1>6, <1>7, <1>8, <1>9
<1> QED
  BY <1>10, <1>11 DEF MemCounted

\* No starting point lies before the origin.
LEMMA NothingPassed == Cardinality({p \in Initial : p <= Origin}) = 0
<1>1. {p \in Initial : p <= Origin} = {}
  BY StartingPoints DEF Origin
<1> QED
  BY <1>1, FS_EmptySet

LEMMA CounterStep ==
  ASSUME TypeOK, ControlInv, PipelineInv, MemCounted, CountersCover, [Next]_vars
  PROVE  MemCounted' /\ CountersCover'
<1>1. Rests \/ Ends \/ Begins \/ Resumes \/ Turns \/ Counts
  BY CheckpointMoves
<1>2. CASE Rests
  BY <1>2 DEF Rests, MemCounted, CountersCover
<1>3. CASE Ends
  <2>1. MemCounted'
    BY <1>3, NothingPassed DEF Ends, NoCheckpoint, MemCounted
  <2>2. CountersCover'
    BY <1>3 DEF Ends, NoCheckpoint, MemCounted, CountersCover
  <2> QED
    BY <2>1, <2>2
<1>4. CASE Begins
  BY <1>4, NothingPassed DEF Begins, MemCounted, CountersCover
<1>5. CASE Resumes
  BY <1>5 DEF Resumes, MemCounted, CountersCover
<1>6. CASE Turns
  BY <1>6 DEF Turns, MemCounted, CountersCover
<1>7. CASE Counts
  <2>1. MemCounted'
    BY <1>7, CountedCovers DEF Counts
  <2> QED
    BY <1>7, <2>1 DEF Counts, MemCounted, CountersCover
<1> QED
  BY <1>1, <1>2, <1>3, <1>4, <1>5, <1>6, <1>7

\* A checkpoint that moves goes on from where it is, or is removed.
Forward ==
  cp.phase # "none" /\ cp'.phase # "none" =>
    cp'.cursor >= cp.cursor /\ Rank[cp'.phase] >= Rank[cp.phase]

LEMMA TrailStep ==
  ASSUME TypeOK, ControlInv, OrderInv, TrailInv, [Next]_vars
  PROVE  TrailInv' /\ Forward
<1>1. Rests \/ Ends \/ Begins \/ Resumes \/ Turns \/ Counts
  BY CheckpointMoves
<1>2. mem.cursor \in Nat /\ cp.cursor \in Nat
  BY CursorsAreNumbers
<1>3. \A p \in SavedPhases : Rank[p] \in Nat
  BY DEF Rank, SavedPhases
<1>4. cp.phase # "none" => cp.phase \in SavedPhases
  BY DEF TypeOK, Checkpoints, Phases
<1>5. CASE Rests
  BY <1>2, <1>3, <1>4, <1>5 DEF Rests, TrailInv, Forward
<1>6. CASE Ends
  BY <1>2, <1>3, <1>4, <1>6 DEF Ends, NoCheckpoint, TrailInv, Forward
<1>7. CASE Begins
  BY <1>7 DEF Begins, TrailInv, Forward
<1>8. CASE Resumes
  BY <1>2, <1>3, <1>4, <1>8 DEF Resumes, TrailInv, Forward
<1>9. CASE Turns
  <2>1. CASE cp' = cp
    BY <1>2, <1>3, <1>4, <1>9, <2>1 DEF Turns, TrailInv, Forward
  <2>2. CASE cp' = mem'
    BY <1>2, <1>3, <1>4, <1>9, <2>2 DEF Turns, TrailInv, Forward
  <2> QED
    BY <1>9, <2>1, <2>2 DEF Turns
<1>10. CASE Counts
  <2>1. /\ mem'.cursor = cons.win.next /\ mem'.phase = mem.phase
        /\ mem.phase = "ingest" /\ pc = "ingest" /\ cp' \in {cp, mem'}
    BY <1>10, CountedType DEF Counts, TypeOK, ControlInv, PhaseInv
  <2>2. mem.cursor <= cons.win.next /\ cons.win.next \in Nat
    BY <1>10, CursorsAreNumbers DEF Counts, WindowSent, OrderInv
  <2>3. mem.phase \in SavedPhases
    BY <2>1 DEF SavedPhases
  <2>4. CASE cp' = cp
    BY <1>2, <1>3, <1>4, <2>1, <2>2, <2>3, <2>4 DEF TrailInv, Forward
  <2>5. CASE cp' = mem'
    BY <1>2, <1>3, <1>4, <2>1, <2>2, <2>3, <2>5 DEF TrailInv, Forward
  <2> QED
    BY <2>1, <2>4, <2>5
<1> QED
  BY <1>1, <1>5, <1>6, <1>7, <1>8, <1>9, <1>10

LEMMA ProgressInit == Init => ProgressInv
BY NothingPassed DEF Init, ProgressInv, OrderInv, TrailInv, MemCounted, CountersCover, NoCheckpoint

LEMMA ProgressStep == Inv /\ ProgressInv /\ [Next]_vars => ProgressInv' /\ Forward
BY OrderStep, TrailStep, CounterStep DEF Inv, CoverInv, ProgressInv

LEMMA ProgressAlways == Spec => [](Inv /\ ProgressInv)
<1>1. Init => Inv /\ ProgressInv
  BY InvInit, ProgressInit
<1>2. Inv /\ ProgressInv /\ [Next]_vars => (Inv /\ ProgressInv)'
  BY InvStep, ProgressStep
<1> QED
  BY <1>1, <1>2, PTL DEF Spec

\* Whatever fails, is killed or is run again with other options, the stored
\* checkpoint never loses a phase or a point it has reached, until it is removed.
THEOREM CheckpointsMoveForward == Spec => CheckpointForward
<1>1. Inv /\ ProgressInv /\ [Next]_vars
        => [cp.phase # "none" /\ cp'.phase # "none" =>
              cp'.cursor >= cp.cursor /\ Rank[cp'.phase] >= Rank[cp.phase]]_vars
  BY ProgressStep DEF Forward
<1> QED
  BY <1>1, ProgressAlways, PTL DEF Spec, CheckpointForward

\* The saved counters account for every starting point the cursor has passed:
\* no retry, lost save or resumed window leaves one uncounted.
THEOREM CountersKeepUp == Spec => []CountersCover
<1>1. ProgressInv => CountersCover
  BY DEF ProgressInv
<1> QED
  BY <1>1, ProgressAlways, PTL

-----------------------------------------------------------------------------
(* The target has the shard keys of the starting points.                   *)

KeylessSteps == {"schema", "create", "indexes"}

LEMMA KeysStep ==
  ASSUME TypeOK, ControlInv, SourceInv, KeysInv, [Next]_vars
  PROVE  KeysInv'
<1> USE DEF KeysInv
<1>1. CASE UNCHANGED vars
  BY <1>1 DEF vars
\* A step after the keys are created, or one that keeps the run where it is.
<1>2. ASSUME tgt.keys \subseteq tgt'.keys, pc' \notin KeylessSteps,
             cp'.phase # "none" \/ pc' # "idle" =>
               cp.phase # "none" \/ pc \notin {"idle"} \cup KeylessSteps
      PROVE  KeysInv'
  BY <1>2 DEF KeylessSteps
<1>3. ASSUME src.exists PROVE StartingKeys \subseteq Discovered
  BY <1>3 DEF SourceInv, StartingKeys, Discovered
<1>4. ASSUME NEW o \in Options, StartFresh(o) PROVE KeysInv'
  <2>1. src.exists /\ created' = Discovered /\ pc' = "schema" /\ cp'.phase = "none"
    BY <1>4 DEF StartFresh, BeginRun, Accepted, Fresh, NewCheckpoint, NoCheckpoint
  <2> QED
    BY <1>3, <2>1
<1>5. ASSUME NEW o \in Options, StartResumed(o) PROVE KeysInv'
  <2>1. /\ UNCHANGED <<cp, tgt>> /\ cp.phase # "none"
        /\ pc' \in {"ingest", "decide"}
    BY <1>5 DEF StartResumed, BeginRun, Accepted, Resumable, TypeOK
  <2> QED
    BY <1>2, <2>1 DEF KeylessSteps
<1>6. ASSUME NEW o \in Options, StartRefused(o) \/ FailStart(o) PROVE KeysInv'
  BY <1>6 DEF StartRefused, FailStart, stores
<1>7. CASE DropTarget \/ CreateTarget \/ KeepTarget
  <2>1. /\ pc \in {"schema", "create"} /\ pc' \in KeylessSteps /\ UNCHANGED <<cp, created>>
    BY <1>7 DEF DropTarget, CreateTarget, KeepTarget, Goto, stores, KeylessSteps
  <2>2. cp.phase = "none" /\ StartingKeys \subseteq created
    BY <2>1 DEF ControlInv, SchemaInv, SchemaSteps
  <2> QED
    BY <2>1, <2>2 DEF KeylessSteps
<1>8. CASE CreateShardKeys
  <2>1. tgt'.keys = tgt.keys \cup created /\ pc' = "saveIngest" /\ pc = "indexes"
    BY <1>8 DEF CreateShardKeys, Goto, TypeOK
  <2> QED
    BY <2>1
<1>9. CASE SaveIngest
  BY <1>9 DEF SaveIngest, Goto
<1>10. CASE FetchPage \/ SendWindow \/ CloseChannel \/ ReceiveWindow \/ IssueChunk
  BY <1>2, <1>10 DEF FetchPage, SendWindow, CloseChannel, ReceiveWindow, IssueChunk, stores,
                     KeylessSteps
<1>11. CASE EnsureShardKey
  <2>1. tgt.keys \subseteq tgt'.keys /\ UNCHANGED <<cp, pc>> /\ pc = "ingest"
    BY <1>11 DEF EnsureShardKey, TypeOK
  <2> QED
    BY <1>2, <2>1 DEF KeylessSteps
<1>12. CASE RejectWindow \/ FailWindow \/ InterruptIngest
  BY <1>2, <1>12 DEF RejectWindow, FailWindow, InterruptIngest, FailIngest, stores, KeylessSteps
<1>13. ASSUME NEW g \in cons.inflight, UpsertDone(g) \/ UpsertRejected(g) \/ UpsertLost(g)
       PROVE  KeysInv'
  <2>1. tgt'.keys = tgt.keys /\ UNCHANGED <<cp, pc>> /\ pc = "ingest"
    BY <1>13 DEF UpsertDone, UpsertRejected, UpsertLost, TypeOK, stores
  <2> QED
    BY <1>2, <2>1 DEF KeylessSteps
<1>14. CASE CommitWindow \/ LoseWindowSave \/ FinishIngest \/ LoseIngestSave
  BY <1>2, <1>14 DEF CommitWindow, LoseWindowSave, FinishIngest, LoseIngestSave, Goto, stores,
                     KeylessSteps
<1>15. CASE Decide
  <2>1. UNCHANGED <<cp, tgt>> /\ pc = "decide" /\ pc' \notin KeylessSteps
    BY <1>15 DEF Decide, Halt, ControlInv, PhaseInv, AfterIngest, stores, KeylessSteps
  <2> QED
    BY <1>2, <2>1 DEF KeylessSteps
<1>16. CASE RestoreOptimizers \/ SaveVerify \/ Verify \/ CountMismatch \/ CutoverAlias
            \/ DropSource \/ SaveDone \/ RemoveCheckpoint
  <2>1. tgt'.keys = tgt.keys /\ pc' \notin KeylessSteps /\ pc \notin {"idle"} \cup KeylessSteps
    BY <1>16 DEF RestoreOptimizers, SaveVerify, Verify, CountMismatch, CutoverAlias, DropSource,
                 SaveDone, RemoveCheckpoint, Goto, Halt, stores, TypeOK, KeylessSteps
  <2> QED
    BY <1>2, <2>1 DEF KeylessSteps
<1>17. CASE Crash \/ FailStep
  <2>1. cp' = cp /\ pc' = "idle"
    BY <1>17 DEF Crash, FailStep, Halt, stores
  <2>2. CASE pc \in KeylessSteps
    BY <2>1, <2>2 DEF ControlInv, SchemaInv, SchemaSteps, KeylessSteps
  <2>3. CASE pc \notin KeylessSteps
    <3>1. tgt.keys \subseteq tgt'.keys
      BY <1>17, <2>3 DEF Crash, FailStep, stores, TypeOK, KeylessSteps
    <3> QED
      BY <1>2, <2>1, <3>1 DEF KeylessSteps
  <2> QED
    BY <2>2, <2>3
<1>18. ASSUME NEW p \in Late, WriteSource(p) PROVE KeysInv'
  BY <1>18 DEF WriteSource
<1> QED
  BY <1>1, <1>4, <1>5, <1>6, <1>7, <1>8, <1>9, <1>10, <1>11, <1>12, <1>13, <1>14, <1>15, <1>16,
     <1>17, <1>18
     DEF Next, Operator, Sequence, Produce, Consume, Upsert, Failure

\* An upsert only meets a missing shard key for a key that no starting point has:
\* a resumed run's list of created keys, taken from the source and never from
\* the target, is right about every key that was there when the migration began.
THEOREM StartingKeysAreCreated == Spec => []StartingKeysExist
<1>1. Init => Inv /\ KeysInv
  BY InvInit DEF Init, KeysInv, NoCheckpoint
<1>2. Inv /\ KeysInv /\ [Next]_vars => (Inv /\ KeysInv)'
  BY InvStep, KeysStep DEF Inv, CoverInv
<1>3. ASSUME Inv, KeysInv PROVE StartingKeysExist
  <2>1. SUFFICES ASSUME NEW g \in cons.inflight PROVE HasShard(g) \/ g.key \notin {Class[p] : p \in Initial}
    BY DEF StartingKeysExist
  <2>2. pc = "ingest"
    BY <1>3, <2>1 DEF Inv, ControlInv, QuietInv, IdleConsumer
  <2> QED
    BY <1>3, <2>2 DEF KeysInv, StartingKeys, HasShard
<1> QED
  BY <1>1, <1>2, <1>3, PTL DEF Spec

-----------------------------------------------------------------------------
(* The optimizers are restored before anything is verified or cut over.    *)

OptionsAreLegal == \A o \in Options : o.fast \in BOOLEAN /\ ~(o.restart /\ o.resume)

LEMMA OptionsLegal == OptionsAreLegal
BY MigrateAssumption DEF ValidOptions, OptionRecords, OptionsAreLegal

LatePhases == {"verify", "cutover", "done"}

\* A step that leaves the threshold alone, or lowers it.
LEMMA ThresholdKept ==
  ASSUME ThresholdInv, tgt'.threshold \in {tgt.threshold, "own", "original"},
         pc' \in SchemaSteps => (pc \in SchemaSteps /\ UNCHANGED opts),
         pc' \notin {"idle", "schema", "create"} =>
           \/ mem'.fast \/ tgt'.threshold # "bulk"
           \/ pc \notin {"idle", "schema", "create"} /\ ~mem.fast,
         cp'.phase = "none" \/ cp'.fast \/ tgt'.threshold # "bulk"
           \/ (cp.phase # "none" /\ ~cp.fast),
         mem'.phase \in LatePhases => mem.phase \in LatePhases \/ tgt'.threshold # "bulk",
         cp'.phase \in LatePhases =>
           cp.phase \in LatePhases \/ mem.phase \in LatePhases \/ tgt'.threshold # "bulk"
  PROVE  ThresholdInv'
BY DEF ThresholdInv, RestoredBeforeVerify, LatePhases

LEMMA ThresholdStep ==
  ASSUME BulkIsUndone, TypeOK, ControlInv, ThresholdInv, [Next]_vars
  PROVE  ThresholdInv'
<1>0. OptionsAreLegal /\ opts \in Options /\ opts.fast \in BOOLEAN
  BY OptionsLegal DEF OptionsAreLegal, TypeOK
<1>1. CASE UNCHANGED vars
  BY <1>1 DEF vars, ThresholdInv, RestoredBeforeVerify
<1>2. ASSUME UNCHANGED <<cp, mem>>, tgt'.threshold = tgt.threshold, pc' \notin SchemaSteps,
             pc' # "idle" => pc \notin {"idle", "schema", "create"}
      PROVE  ThresholdInv'
  BY <1>2, ThresholdKept
<1>3. ASSUME pc' = "idle", mem' = NoCheckpoint, cp' \in {cp, NoCheckpoint},
             tgt'.threshold \in {tgt.threshold, "own", "original"}
      PROVE  ThresholdInv'
  <2>1. mem'.phase \notin LatePhases /\ NoCheckpoint.phase = "none" /\ pc' \notin SchemaSteps
    BY <1>3 DEF NoCheckpoint, LatePhases, SchemaSteps
  <2> QED
    BY <1>3, <2>1, ThresholdKept DEF LatePhases, ThresholdInv
<1>4. ASSUME NEW o \in Options, StartFresh(o) PROVE ThresholdInv'
  <2>1. /\ ~o.resume /\ opts' = o /\ UNCHANGED tgt /\ pc' = "schema" /\ cp'.phase = "none"
        /\ mem'.phase = "schema"
    BY <1>0, <1>4 DEF StartFresh, BeginRun, Fresh, NewCheckpoint, NoCheckpoint, OptionsAreLegal
  <2> QED
    BY <2>1 DEF ThresholdInv, RestoredBeforeVerify
<1>5. ASSUME NEW o \in Options, StartResumed(o) PROVE ThresholdInv'
  <2>1. /\ UNCHANGED <<tgt, cp>> /\ mem' = cp /\ cp.phase # "none"
        /\ pc' \in {"ingest", "decide"}
    BY <1>5 DEF StartResumed, BeginRun, Accepted, Resumable, TypeOK
  <2> QED
    BY <2>1 DEF ThresholdInv, RestoredBeforeVerify, SchemaSteps
<1>6. ASSUME NEW o \in Options, StartRefused(o) \/ FailStart(o) PROVE ThresholdInv'
  <2>1. pc = "idle" /\ UNCHANGED <<tgt, cp, mem, pc>>
    BY <1>6 DEF StartRefused, FailStart, stores, Fault
  <2> QED
    BY <2>1 DEF ThresholdInv, RestoredBeforeVerify, SchemaSteps
<1>7. ASSUME pc \in SchemaSteps
      PROVE  /\ cp.phase = "none" /\ mem.phase \notin LatePhases /\ ~opts.resume
             /\ mem.fast = opts.fast
  BY <1>7 DEF ControlInv, SchemaInv, PhaseInv, SchemaSteps, LatePhases, ThresholdInv
<1>8. CASE DropTarget
  <2>1. /\ pc \in SchemaSteps /\ pc' = "create" /\ UNCHANGED <<cp, mem, opts>>
        /\ tgt'.threshold = "own"
    BY <1>8 DEF DropTarget, Goto, NoTarget, SchemaSteps
  <2> QED
    BY <2>1, ThresholdKept
<1>9. CASE CreateTarget
  <2>1. /\ pc \in SchemaSteps /\ pc' = "indexes" /\ UNCHANGED <<cp, mem, opts>>
        /\ tgt'.threshold = IF opts.fast THEN "bulk" ELSE "original"
    BY <1>9 DEF CreateTarget, Goto, SchemaSteps
  <2> QED
    BY <1>0, <1>7, <2>1 DEF ThresholdInv, RestoredBeforeVerify, LatePhases
<1>10. CASE KeepTarget
  <2>1. /\ pc \in SchemaSteps /\ pc' = "indexes" /\ UNCHANGED <<cp, mem, opts, tgt>>
        /\ ~opts.recreate
    BY <1>10 DEF KeepTarget, Goto, stores, SchemaSteps
  <2>2. opts.fast \/ tgt.threshold # "bulk"
    BY <1>0, <1>7, <2>1 DEF BulkIsUndone, ThresholdInv
  <2>3. mem'.fast \/ tgt'.threshold # "bulk"
    BY <1>7, <2>1, <2>2
  <2> QED
    BY <1>7, <2>1, <2>3, ThresholdKept
<1>11. CASE CreateShardKeys
  <2>1. /\ pc = "indexes" /\ pc \in SchemaSteps /\ pc' = "saveIngest" /\ UNCHANGED <<cp, opts>>
        /\ tgt'.threshold = tgt.threshold /\ mem'.phase = "ingest" /\ mem'.fast = mem.fast
    BY <1>11 DEF CreateShardKeys, Goto, SchemaSteps, TypeOK, Checkpoints
  <2> QED
    BY <1>7, <2>1, ThresholdKept DEF LatePhases, ThresholdInv
<1>12. CASE SaveIngest
  <2>1. /\ pc = "saveIngest" /\ pc' = "ingest" /\ cp' = mem /\ UNCHANGED <<tgt, mem, opts>>
        /\ mem.phase \notin LatePhases
    BY <1>7, <1>12 DEF SaveIngest, Goto, SchemaSteps
  <2> QED
    BY <2>1 DEF LatePhases, ThresholdInv, RestoredBeforeVerify, SchemaSteps
<1>13. CASE FetchPage \/ SendWindow \/ CloseChannel \/ ReceiveWindow \/ EnsureShardKey \/ IssueChunk
  <2>1. /\ pc = "ingest" /\ UNCHANGED <<cp, mem, pc>> /\ tgt'.threshold = tgt.threshold
    BY <1>13 DEF FetchPage, SendWindow, CloseChannel, ReceiveWindow, EnsureShardKey, IssueChunk,
                 stores, TypeOK
  <2> QED
    BY <1>2, <2>1 DEF SchemaSteps
<1>14. CASE RejectWindow \/ FailWindow \/ InterruptIngest
  BY <1>2, <1>14 DEF RejectWindow, FailWindow, InterruptIngest, FailIngest, stores, SchemaSteps
<1>15. ASSUME NEW g \in cons.inflight, UpsertDone(g) \/ UpsertRejected(g) \/ UpsertLost(g)
       PROVE  ThresholdInv'
  <2>1. /\ pc = "ingest" /\ UNCHANGED <<cp, mem, pc>> /\ tgt'.threshold = tgt.threshold
    BY <1>15 DEF UpsertDone, UpsertRejected, UpsertLost, TypeOK, stores
  <2> QED
    BY <1>2, <2>1 DEF SchemaSteps
<1>16. CASE CommitWindow \/ LoseWindowSave
  <2>1. /\ pc = "ingest" /\ mem.phase = "ingest" /\ mem'.phase = "ingest" /\ mem'.fast = mem.fast
        /\ cp' \in {cp, mem'} /\ UNCHANGED tgt /\ pc' \in {"ingest", "decide"}
    BY <1>16, CountedType DEF CommitWindow, LoseWindowSave, stores, TypeOK, ControlInv, PhaseInv
  <2> QED
    BY <2>1 DEF ThresholdInv, RestoredBeforeVerify, SchemaSteps
<1>17. CASE FinishIngest \/ LoseIngestSave
  <2>1. /\ pc = "ingest" /\ pc' = "decide" /\ UNCHANGED tgt /\ cp' \in {cp, mem'}
        /\ mem'.fast = mem.fast /\ mem.fast = opts.fast
        /\ mem'.phase = IF opts.fast THEN "optimize" ELSE "verify"
    BY <1>17 DEF FinishIngest, LoseIngestSave, Goto, stores, TypeOK, Checkpoints, ControlInv,
                 PhaseInv
  <2>2. mem.fast \/ tgt.threshold # "bulk"
    BY <2>1 DEF ThresholdInv
  <2>3. mem'.phase = "optimize" \/ tgt.threshold # "bulk"
    BY <2>1, <2>2
  <2> QED
    BY <2>1, <2>2, <2>3 DEF ThresholdInv, RestoredBeforeVerify, SchemaSteps
<1>18. CASE Decide
  <2>1. CASE Halt("error")
    BY <1>3, <1>18, <2>1 DEF Decide, Halt, stores
  <2>2. CASE UNCHANGED mem
    <3>1. UNCHANGED <<cp, tgt>> /\ pc = "decide" /\ pc' \notin SchemaSteps
      BY <1>18 DEF Decide, Halt, ControlInv, PhaseInv, AfterIngest, stores, SchemaSteps
    <3> QED
      BY <1>2, <2>2, <3>1
  <2> QED
    BY <1>18, <2>1, <2>2 DEF Decide
<1>19. CASE RestoreOptimizers
  <2>1. tgt'.threshold = "original" /\ pc' = "saveVerify"
    BY <1>19 DEF RestoreOptimizers, Goto, TypeOK
  <2> QED
    BY <2>1 DEF ThresholdInv, RestoredBeforeVerify, SchemaSteps
<1>20. CASE SaveVerify \/ Verify \/ CutoverAlias \/ DropSource \/ SaveDone
  <2>1. /\ mem.phase \in LatePhases /\ tgt.threshold # "bulk"
    BY <1>20 DEF SaveVerify, Verify, CutoverAlias, DropSource, SaveDone, ControlInv, PhaseInv,
                 ThresholdInv, LatePhases
  <2>2. tgt'.threshold = tgt.threshold /\ pc' \notin SchemaSteps
    BY <1>20 DEF SaveVerify, Verify, CutoverAlias, DropSource, SaveDone, Goto, Halt, SchemaSteps
  <2> QED
    BY <2>1, <2>2 DEF ThresholdInv, RestoredBeforeVerify
<1>21. CASE CountMismatch \/ Crash \/ RemoveCheckpoint
  BY <1>3, <1>21 DEF CountMismatch, Crash, RemoveCheckpoint, Halt, stores
<1>22. CASE FailStep
  <2>1. pc' = "idle" /\ mem' = NoCheckpoint /\ cp' = cp
    BY <1>22 DEF FailStep, Halt, stores
  <2>2. CASE tgt'.threshold \in {tgt.threshold, "own", "original"}
    BY <1>3, <2>1, <2>2
  <2>3. CASE tgt'.threshold \notin {tgt.threshold, "own", "original"}
    <3>1. /\ pc \in {"schema", "create"} /\ opts.fast
      BY <1>22, <2>3 DEF FailStep, NoTarget, stores, TypeOK
    <3>2. cp.phase = "none"
      BY <1>7, <3>1 DEF SchemaSteps
    <3> QED
      BY <1>0, <2>1, <3>1, <3>2 DEF ThresholdInv, RestoredBeforeVerify, NoCheckpoint, SchemaSteps
  <2> QED
    BY <2>2, <2>3
<1>23. ASSUME NEW p \in Late, WriteSource(p) PROVE ThresholdInv'
  BY <1>23 DEF WriteSource, control, ThresholdInv, RestoredBeforeVerify
<1> QED
  BY <1>1, <1>4, <1>5, <1>6, <1>8, <1>9, <1>10, <1>11, <1>12, <1>13, <1>14, <1>15, <1>16,
     <1>17, <1>18, <1>19, <1>20, <1>21, <1>22, <1>23
     DEF Next, Operator, Sequence, Produce, Consume, Upsert, Failure

\* No checkpoint past the optimize phase sits beside a target whose indexing is
\* still suppressed, if the operator does not turn to --no-fast-bulk on a target
\* that a fast run may have left suppressed.  The condition is needed: such a run
\* neither restores the threshold nor looks at it (prepare_target).
THEOREM OptimizersAreRestored ==
  ASSUME BulkIsUndone
  PROVE  Spec => []RestoredBeforeVerify
<1>1. Init => Inv /\ ThresholdInv
  BY InvInit DEF Init, ThresholdInv, RestoredBeforeVerify, NoCheckpoint, SchemaSteps, NoTarget,
                 OwnTarget
<1>2. Inv /\ ThresholdInv /\ [Next]_vars => (Inv /\ ThresholdInv)'
  BY InvStep, ThresholdStep DEF Inv
<1>3. ThresholdInv => RestoredBeforeVerify
  BY DEF ThresholdInv
<1> QED
  BY <1>1, <1>2, <1>3, PTL DEF Spec

-----------------------------------------------------------------------------
(* What reaches the target comes from the source.                          *)

\* Nothing waits in a new producer's window, nor with an idle consumer.
LEMMA NothingWaits ==
  /\ \A c : WindowPoints(EmptyWindow(c)) = {} /\ WindowPoints(Producer(c).win) = {}
  /\ IdleConsumer.todo \cup IdleConsumer.inflight = {}
BY DEF WindowPoints, EmptyWindow, Producer, IdleConsumer

\* A step that takes nothing new from the source.
LEMMA CopiedKept ==
  ASSUME CopiedInv,
         src'.exists => src.exists /\ src.pts \subseteq src'.pts,
         OwnPoints /\ src.exists => tgt'.pts \subseteq src.pts,
         WindowPoints(prod'.win) \subseteq WindowPoints(prod.win),
         chan' \in {chan, <<>>},
         cons'.todo \cup cons'.inflight \subseteq cons.todo \cup cons.inflight
  PROVE  CopiedInv'
<1> SUFFICES ASSUME OwnPoints, src'.exists
             PROVE  /\ tgt'.pts \subseteq src'.pts
                    /\ WindowPoints(prod'.win) \subseteq src'.pts
                    /\ \A i \in DOMAIN chan' : WindowPoints(chan'[i]) \subseteq src'.pts
                    /\ \A g \in cons'.todo \cup cons'.inflight : g.pts \subseteq src'.pts
  BY DEF CopiedInv, OwnPoints, WindowPoints
<1>1. src.exists /\ src.pts \subseteq src'.pts
  OBVIOUS
<1>2. /\ WindowPoints(prod.win) \subseteq src.pts
      /\ \A i \in DOMAIN chan : WindowPoints(chan[i]) \subseteq src.pts
      /\ \A g \in cons.todo \cup cons.inflight : g.pts \subseteq src.pts
  BY <1>1 DEF CopiedInv
<1>3. \A i \in DOMAIN chan' : WindowPoints(chan'[i]) \subseteq src'.pts
  <2>1. CASE chan' = chan
    BY <1>1, <1>2, <2>1
  <2>2. CASE chan' = <<>>
    BY <2>2
  <2> QED
    BY <2>1, <2>2
<1> QED
  BY <1>1, <1>2, <1>3

\* The target keeps its points, or loses them.
LEMMA CopiedTarget ==
  ASSUME CopiedInv, tgt'.pts \subseteq tgt.pts \/ tgt'.pts = {}
  PROVE  OwnPoints /\ src.exists => tgt'.pts \subseteq src.pts
BY DEF CopiedInv

\* A page is read from the source.
LEMMA CopiedFetch ==
  ASSUME TypeOK, CopiedInv, FetchPage
  PROVE  CopiedInv'
<1> DEFINE page == Page(prod.stream, src.pts)
           next == Advance(prod.stream, src.pts)
<1>1. page \subseteq src.pts
  BY DEF Page, Probe, Smallest, AtOrAfter
<1>2. /\ prod' = [prod EXCEPT
          !.stream = next,
          !.win = IF page = {} THEN @
                  ELSE [next |-> next.after, pages |-> Append(@.pages, page)]]
      /\ UNCHANGED <<src, tgt, chan, cons>>
  BY DEF FetchPage, stores
<1>3. prod.win \in Windows /\ prod.win.pages \in Seq(SUBSET Points) /\ src.pts \in SUBSET Points
  BY DEF TypeOK, Windows
<1> HIDE DEF page, next
<1>4. prod'.win = IF page = {} THEN prod.win
                  ELSE [next |-> next.after, pages |-> Append(prod.win.pages, page)]
  BY <1>2 DEF TypeOK
<1>5. WindowPoints(prod'.win) \subseteq WindowPoints(prod.win) \cup page
  <2>1. CASE page = {}
    BY <1>4, <2>1
  <2>2. CASE page # {}
    <3>1. page \in SUBSET Points
      BY <1>1, <1>3
    <3> DEFINE new == Append(prod.win.pages, page)
    <3>2. prod'.win.pages = new
      BY <1>4, <2>2
    <3>3. \A i \in DOMAIN new : new[i] = page \/ (i \in DOMAIN prod.win.pages /\ new[i] = prod.win.pages[i])
      BY <1>3, <3>1, AppendProperties, LenProperties
    <3> HIDE DEF new
    <3> QED
      BY <3>2, <3>3 DEF WindowPoints
  <2> QED
    BY <2>1, <2>2
<1> QED
  BY <1>1, <1>2, <1>5 DEF CopiedInv

\* A window goes to the channel as it is.
LEMMA CopiedSend ==
  ASSUME TypeOK, CopiedInv, SendWindow
  PROVE  CopiedInv'
<1>1. /\ chan' = Append(chan, prod.win)
      /\ prod' = [prod EXCEPT !.win = EmptyWindow(prod.win.next)]
      /\ UNCHANGED <<src, tgt, cons>>
  BY DEF SendWindow, stores
<1>2. prod.win \in Windows /\ chan \in Seq(Windows)
  BY DEF TypeOK
<1>3. \A i \in DOMAIN chan' : chan'[i] = prod.win \/ (i \in DOMAIN chan /\ chan'[i] = chan[i])
  BY <1>1, <1>2, AppendProperties, LenProperties
<1>4. WindowPoints(prod'.win) = {}
  <2>1. prod'.win = EmptyWindow(prod.win.next)
    BY <1>1 DEF TypeOK
  <2> QED
    BY <2>1, NothingWaits
<1> QED
  BY <1>1, <1>3, <1>4 DEF CopiedInv

\* and is split into groups of its own points.
LEMMA CopiedReceive ==
  ASSUME TypeOK, CopiedInv, ReceiveWindow
  PROVE  CopiedInv'
<1>1. /\ chan # <<>> /\ chan' = Tail(chan)
      /\ cons' = [IdleConsumer EXCEPT !.busy = TRUE, !.win = Head(chan), !.todo = Groups(Head(chan))]
      /\ UNCHANGED <<src, tgt, prod>>
  BY DEF ReceiveWindow, stores
<1>2. chan \in Seq(Windows)
  BY DEF TypeOK
<1>3. /\ 1 \in DOMAIN chan /\ Head(chan) = chan[1]
      /\ \A i \in DOMAIN chan' : i + 1 \in DOMAIN chan /\ chan'[i] = chan[i + 1]
  BY <1>1, <1>2, HeadTailProperties, LenProperties, EmptySeq
<1>4. cons'.todo = Groups(Head(chan)) /\ cons'.inflight = {}
  BY <1>1 DEF IdleConsumer
<1>5. \A g \in Groups(Head(chan)) : g.pts \subseteq WindowPoints(Head(chan))
  BY DEF Groups, WindowPoints
<1> QED
  BY <1>1, <1>3, <1>4, <1>5 DEF CopiedInv

\* An upsert writes points that were read from the source.
LEMMA CopiedUpsert ==
  ASSUME TypeOK, CopiedInv, NEW g \in cons.inflight,
         UpsertDone(g) \/ UpsertRejected(g) \/ UpsertLost(g)
  PROVE  CopiedInv'
<1>1. UNCHANGED <<src, prod, chan>> /\ cons'.todo = cons.todo /\ cons'.inflight \subseteq cons.inflight
  <2>1. CASE UpsertDone(g)
    BY <2>1 DEF UpsertDone, TypeOK
  <2>2. CASE UpsertRejected(g)
    BY <2>2 DEF UpsertRejected, stores, TypeOK
  <2>3. CASE UpsertLost(g)
    BY <2>3 DEF UpsertLost, TypeOK
  <2> QED
    BY <2>1, <2>2, <2>3
<1>2. tgt'.pts \subseteq tgt.pts \cup g.pts
  <2>1. CASE UpsertDone(g) \/ UpsertRejected(g)
    BY <2>1 DEF UpsertDone, UpsertRejected, TypeOK, stores
  <2>2. CASE UpsertLost(g)
    <3>1. PICK applied \in SUBSET g.pts : tgt' = [tgt EXCEPT !.pts = @ \cup applied]
      BY <2>2 DEF UpsertLost
    <3> QED
      BY <3>1 DEF TypeOK
  <2> QED
    BY <2>1, <2>2
<1>3. OwnPoints /\ src.exists => tgt'.pts \subseteq src.pts
  BY <1>2 DEF CopiedInv
<1> QED
  BY <1>1, <1>3, CopiedKept

LEMMA CopiedInit == Init => CopiedInv
<1> SUFFICES ASSUME Init, OwnPoints PROVE CopiedInv
  BY DEF CopiedInv
<1>1. src.pts = Initial /\ chan = <<>> /\ WindowPoints(prod.win) = {}
      /\ cons.todo \cup cons.inflight = {}
  BY NothingWaits DEF Init
<1>2. tgt.pts \subseteq Initial
  <2>1. PICK e \in Existing : tgt = IF e THEN OwnTarget ELSE NoTarget
    BY DEF Init
  <2>2. e => Foreign \subseteq Initial
    BY MigrateAssumption DEF OwnPoints
  <2> QED
    BY <2>1, <2>2 DEF OwnTarget, NoTarget
<1> QED
  BY <1>1, <1>2 DEF CopiedInv

LEMMA CopiedStep ==
  ASSUME TypeOK, ControlInv, CoverInv, CopiedInv, [Next]_vars
  PROVE  CopiedInv'
<1>1. CASE UNCHANGED vars
  BY <1>1, CopiedKept, CopiedTarget DEF vars
<1>2. ASSUME src'.exists => src.exists /\ src.pts \subseteq src'.pts,
             UNCHANGED pipeline,
             tgt'.pts \subseteq tgt.pts \/ tgt'.pts = {}
      PROVE  CopiedInv'
  BY <1>2, CopiedKept, CopiedTarget DEF pipeline
<1>3. ASSUME src'.exists => src.exists /\ src.pts \subseteq src'.pts,
             NEW c, prod' = Producer(c), chan' \in {chan, <<>>},
             cons' \in {cons, IdleConsumer},
             tgt'.pts \subseteq tgt.pts \/ tgt'.pts = {}
      PROVE  CopiedInv'
  <2>1. WindowPoints(prod'.win) = {}
    BY <1>3, NothingWaits
  <2>2. cons'.todo \cup cons'.inflight \subseteq cons.todo \cup cons.inflight
    BY <1>3, NothingWaits
  <2> QED
    BY <1>3, <2>1, <2>2, CopiedKept, CopiedTarget
<1>4. ASSUME NEW r, Halt(r), UNCHANGED <<src, tgt>> PROVE CopiedInv'
  BY <1>3, <1>4 DEF Halt
<1>5. ASSUME FailIngest, UNCHANGED stores PROVE CopiedInv'
  BY <1>3, <1>5 DEF FailIngest, stores
<1>6. ASSUME NEW o \in Options, StartFresh(o) \/ StartResumed(o) PROVE CopiedInv'
  BY <1>3, <1>6 DEF StartFresh, StartResumed, BeginRun
<1>7. ASSUME NEW o \in Options, StartRefused(o) \/ FailStart(o) PROVE CopiedInv'
  BY <1>2, <1>7 DEF StartRefused, FailStart, stores
<1>8. CASE DropTarget \/ CreateTarget \/ KeepTarget \/ CreateShardKeys \/ SaveIngest
  <2>1. UNCHANGED <<src, pipeline>> /\ (tgt'.pts = tgt.pts \/ tgt'.pts = {})
    BY <1>8 DEF DropTarget, CreateTarget, KeepTarget, CreateShardKeys, SaveIngest, NoTarget, Goto,
                stores, TypeOK
  <2> QED
    BY <1>2, <2>1
<1>9. CASE FetchPage
  BY <1>9, CopiedFetch
<1>10. CASE SendWindow
  BY <1>10, CopiedSend
<1>11. CASE CloseChannel
  <2>1. UNCHANGED <<src, tgt, chan, cons>> /\ prod'.win = prod.win
    BY <1>11 DEF CloseChannel, stores, TypeOK
  <2> QED
    BY <2>1, CopiedKept, CopiedTarget
<1>12. CASE ReceiveWindow
  BY <1>12, CopiedReceive
<1>13. CASE RejectWindow \/ FailWindow \/ InterruptIngest
  BY <1>5, <1>13 DEF RejectWindow, FailWindow, InterruptIngest, stores
<1>14. CASE EnsureShardKey
  BY <1>2, <1>14 DEF EnsureShardKey, pipeline, TypeOK
<1>15. CASE IssueChunk
  <2>1. PICK chunk \in SUBSET cons.todo :
          cons' = [cons EXCEPT !.todo = @ \ chunk, !.inflight = chunk]
    BY <1>15 DEF IssueChunk
  <2>2. cons'.todo \cup cons'.inflight \subseteq cons.todo \cup cons.inflight
    BY <2>1 DEF TypeOK
  <2> QED
    BY <1>15, <2>2, CopiedKept, CopiedTarget DEF IssueChunk, stores
<1>16. ASSUME NEW g \in cons.inflight, UpsertDone(g) \/ UpsertRejected(g) \/ UpsertLost(g)
       PROVE  CopiedInv'
  BY <1>16, CopiedUpsert
<1>17. CASE CommitWindow \/ LoseWindowSave
  <2>1. UNCHANGED <<src, tgt>> /\ cons' = IdleConsumer /\ chan' \in {chan, <<>>}
        /\ (prod' = prod \/ prod' = Producer(Origin))
    BY <1>17 DEF CommitWindow, LoseWindowSave, stores
  <2>2. WindowPoints(prod'.win) \subseteq WindowPoints(prod.win)
    BY <2>1, NothingWaits
  <2>3. cons'.todo \cup cons'.inflight \subseteq cons.todo \cup cons.inflight
    BY <2>1, NothingWaits
  <2> QED
    BY <2>1, <2>2, <2>3, CopiedKept, CopiedTarget
<1>18. CASE FinishIngest \/ LoseIngestSave \/ CutoverAlias \/ SaveDone \/ Verify
  BY <1>2, <1>18 DEF FinishIngest, LoseIngestSave, CutoverAlias, SaveDone, Verify, Goto, stores
<1>19. CASE Decide
  <2>1. CASE Halt("error")
    BY <1>4, <1>19, <2>1 DEF Decide, stores
  <2>2. CASE UNCHANGED pipeline
    BY <1>2, <1>19, <2>2 DEF Decide, stores
  <2> QED
    BY <1>19, <2>1, <2>2 DEF Decide
<1>20. CASE RestoreOptimizers
  BY <1>2, <1>20 DEF RestoreOptimizers, Goto, TypeOK
<1>21. CASE SaveVerify
  <2>1. CASE Halt("error")
    BY <1>4, <1>21, <2>1 DEF SaveVerify
  <2>2. CASE UNCHANGED pipeline
    BY <1>2, <1>21, <2>2 DEF SaveVerify
  <2> QED
    BY <1>21, <2>1, <2>2 DEF SaveVerify
<1>22. CASE CountMismatch \/ Crash \/ RemoveCheckpoint
  BY <1>4, <1>22 DEF CountMismatch, Crash, RemoveCheckpoint, stores
<1>23. CASE DropSource
  BY <1>2, <1>23 DEF DropSource, Goto
<1>24. CASE FailStep
  <2>1. prod' = Producer(Origin) /\ chan' = <<>> /\ cons' = IdleConsumer
    BY <1>24 DEF FailStep, Halt
  <2>2. src' = src \/ ~src'.exists
    BY <1>24 DEF FailStep, stores
  <2>3. tgt'.pts = tgt.pts \/ tgt'.pts = {}
    BY <1>24 DEF FailStep, NoTarget, stores, TypeOK
  <2> QED
    BY <1>3, <2>1, <2>2, <2>3
<1>25. ASSUME NEW p \in Late, WriteSource(p) PROVE CopiedInv'
  <2>1. UNCHANGED <<tgt, pipeline>> /\ src.exists /\ src.pts \subseteq src'.pts
    BY <1>25 DEF WriteSource, TypeOK
  <2> QED
    BY <1>2, <2>1
<1> QED
  BY <1>1, <1>6, <1>7, <1>8, <1>9, <1>10, <1>11, <1>12, <1>13, <1>14, <1>15, <1>16, <1>17, <1>18,
     <1>19, <1>20, <1>21, <1>22, <1>23, <1>24, <1>25
     DEF Next, Operator, Sequence, Produce, Consume, Upsert, Failure

-----------------------------------------------------------------------------
(* What a run that is about to verify has in the target.                   *)

\* When the ingest ends without an error the target holds every wanted point.
LEMMA IngestComplete ==
  ASSUME TypeOK, CoverInv, pc = "ingest", ~prod.open, chan = <<>>, ~cons.busy
  PROVE  Wanted \subseteq tgt.pts
<1>1. /\ Seg(ProdFrom, prod.win) /\ prod.win.next = prod.stream.after
      /\ prod.win.pages = <<>> /\ \A p \in Initial : p <= prod.stream.after
  BY DEF CoverInv, PipelineInv
<1>2. ProdFrom = mem.cursor
  BY DEF ProdFrom, Before, ChanFrom
<1>3. WindowPoints(prod.win) = {}
  BY <1>1 DEF WindowPoints
<1>4. mem.cursor \in Nat
  BY PointsAreNaturals DEF TypeOK, Checkpoints
<1>5. ASSUME NEW p \in Wanted PROVE p \in tgt.pts
  <2>1. p \in Nat /\ p <= prod.win.next
    BY <1>1, StartingPoints
  <2>2. ~ (mem.cursor < p)
    BY <1>1, <1>2, <1>3, <2>1, StartingPoints DEF Seg
  <2> QED
    BY <1>4, <2>1, <2>2 DEF CoverInv, MemCovered
<1> QED
  BY <1>5

\* Equal counts mean equal sets when one of them is a part of the other.
LEMMA CountsTell ==
  ASSUME TypeOK, CountsMatch, NEW counted \in SUBSET Points,
         Wanted \subseteq counted, tgt.pts \subseteq counted, srcCount = Cardinality(counted)
  PROVE  Wanted \subseteq tgt.pts
<1>1. IsFiniteSet(counted)
  BY PointSetsFinite
<1>2. Cardinality(counted) = Cardinality(tgt.pts)
  BY DEF CountsMatch
<1>3. counted = tgt.pts
  BY <1>1, <1>2, FS_Subset
<1> QED
  BY <1>3

\* A full target stays full, and an account of the source stays one.
LEMMA CountedKept ==
  ASSUME CountedInv, tgt'.pts = tgt.pts, srcCount' = srcCount,
         (pc' \in {"decide", "restore", "saveVerify"} /\ ~ingestErr') \/ pc' = "verify"
           => (pc \in {"decide", "restore", "saveVerify"} /\ ~ingestErr) \/ pc = "verify"
  PROVE  CountedInv'
BY DEF CountedInv

LEMMA CountedStep ==
  ASSUME BulkIsVerified, TypeOK, ControlInv, CoverInv, CompleteInv, CopiedInv, CountedInv,
         [Next]_vars
  PROVE  CountedInv'
<1>1. CASE UNCHANGED vars
  BY <1>1, CountedKept DEF vars
<1>2. ASSUME pc' \notin {"decide", "restore", "saveVerify", "verify"} PROVE CountedInv'
  BY <1>2 DEF CountedInv
<1>3. ASSUME pc' = "decide", ingestErr' PROVE CountedInv'
  BY <1>3 DEF CountedInv
<1>4. CASE Wanted \subseteq tgt.pts /\ UNCHANGED tgt
  BY <1>4 DEF CountedInv
<1>5. ASSUME NEW r, Halt(r) PROVE CountedInv'
  BY <1>2, <1>5 DEF Halt
<1>6. ASSUME NEW o \in Options, StartFresh(o) PROVE CountedInv'
  BY <1>2, <1>6 DEF StartFresh, BeginRun, NewCheckpoint, NoCheckpoint
<1>7. ASSUME NEW o \in Options, StartResumed(o) PROVE CountedInv'
  <2>1. /\ src.exists /\ cp.phase # "none" /\ cp.fast = o.fast
        /\ UNCHANGED tgt /\ srcCount' = Cardinality(src.pts)
    BY <1>7 DEF StartResumed, BeginRun, Accepted, Fresh, Resumable
  <2>2. CASE cp.phase = "ingest"
    BY <1>2, <1>7, <2>2 DEF StartResumed, BeginRun
  <2>3. CASE OwnPoints
    <3>1. /\ src.pts \in SUBSET Points /\ tgt.pts \subseteq src.pts /\ Initial \subseteq src.pts
      BY <2>1, <2>3 DEF CopiedInv, TypeOK, CoverInv, SourceInv
    <3>2. Wanted \subseteq src.pts
      BY <3>1, WantedPoints
    <3> QED
      BY <2>1, <3>1, <3>2 DEF CountedInv
  <2>4. CASE ~OwnPoints /\ cp.phase # "ingest"
    <3>1. ~cp.fast
      BY <2>1, <2>4 DEF BulkIsVerified
    <3>2. Complete(cp)
      BY <2>1, <2>4, <3>1 DEF Complete, TypeOK, Checkpoints, Phases, SavedPhases
    <3> QED
      BY <1>4, <2>1, <3>2 DEF CompleteInv
  <2> QED
    BY <2>2, <2>3, <2>4
<1>8. ASSUME NEW o \in Options, StartRefused(o) \/ FailStart(o) PROVE CountedInv'
  BY <1>2, <1>8 DEF StartRefused, FailStart
<1>9. CASE DropTarget \/ CreateTarget \/ KeepTarget \/ CreateShardKeys \/ SaveIngest
  BY <1>2, <1>9 DEF DropTarget, CreateTarget, KeepTarget, CreateShardKeys, SaveIngest, Goto
<1>10. CASE FetchPage \/ SendWindow \/ CloseChannel \/ ReceiveWindow \/ IssueChunk
             \/ EnsureShardKey \/ CommitWindow
  BY <1>2, <1>10 DEF FetchPage, SendWindow, CloseChannel, ReceiveWindow, IssueChunk,
                     EnsureShardKey, CommitWindow
<1>11. ASSUME NEW g \in cons.inflight, UpsertDone(g) \/ UpsertRejected(g) \/ UpsertLost(g)
       PROVE  CountedInv'
  BY <1>2, <1>11 DEF UpsertDone, UpsertRejected, UpsertLost
<1>12. CASE RejectWindow \/ FailWindow \/ InterruptIngest \/ LoseWindowSave
  BY <1>3, <1>12 DEF RejectWindow, FailWindow, InterruptIngest, LoseWindowSave, FailIngest
<1>13. CASE FinishIngest \/ LoseIngestSave
  BY <1>4, <1>13, IngestComplete DEF FinishIngest, LoseIngestSave, stores
<1>14. CASE Decide
  <2>1. CASE Halt("error")
    BY <1>5, <2>1
  <2>2. CASE UNCHANGED <<srcCount, ingestErr>> /\ (RestoreNeeded \/ ~ingestErr)
    <3>1. pc = "decide" /\ UNCHANGED tgt
      BY <1>14 DEF Decide, stores
    <3>2. pc' = "verify" => ~ingestErr
      BY <1>14, <2>2 DEF Decide, Halt
    <3> QED
      BY <2>2, <3>1, <3>2, CountedKept
  <2> QED
    BY <1>14, <2>1, <2>2 DEF Decide
<1>15. CASE RestoreOptimizers
  BY <1>15, CountedKept DEF RestoreOptimizers, Goto, TypeOK
<1>16. CASE SaveVerify
  <2>1. CASE ingestErr
    BY <1>5, <1>16, <2>1 DEF SaveVerify
  <2>2. CASE ~ingestErr
    BY <1>16, <2>2, CountedKept DEF SaveVerify
  <2> QED
    BY <2>1, <2>2
<1>17. CASE Verify \/ CutoverAlias \/ DropSource \/ SaveDone
  BY <1>2, <1>17 DEF Verify, CutoverAlias, DropSource, SaveDone, Goto
<1>18. CASE CountMismatch \/ Crash \/ RemoveCheckpoint \/ FailStep
  BY <1>5, <1>18 DEF CountMismatch, Crash, RemoveCheckpoint, FailStep
<1>19. ASSUME NEW p \in Late, WriteSource(p) PROVE CountedInv'
  BY <1>19, CountedKept DEF WriteSource, control
<1> QED
  BY <1>1, <1>6, <1>7, <1>8, <1>9, <1>10, <1>11, <1>12, <1>13, <1>14, <1>15, <1>16, <1>17, <1>18,
     <1>19
     DEF Next, Operator, Sequence, Produce, Consume, Upsert, Failure

-----------------------------------------------------------------------------
(* What the checkpoints say of the target.                                 *)

LEMMA CompleteInit == Init => CompleteInv /\ CountedInv /\ AliasInv /\ CutoverComplete
BY DEF Init, CompleteInv, CountedInv, AliasInv, CutoverComplete, Complete, NoCheckpoint

\* A step that loses no point and promises nothing new.
LEMMA CompleteKept ==
  ASSUME CompleteInv, tgt.pts \subseteq tgt'.pts,
         Complete(mem') \/ Complete(cp') \/ ~src'.exists
           => Complete(mem) \/ Complete(cp) \/ ~src.exists,
         pc' \notin {"restore", "saveVerify"}
  PROVE  CompleteInv'
BY DEF CompleteInv, Complete

LEMMA CompleteFull ==
  ASSUME Wanted \subseteq tgt.pts, tgt.pts \subseteq tgt'.pts,
         pc' \notin {"restore", "saveVerify"}
  PROVE  CompleteInv'
BY DEF CompleteInv

\* The steps that can disturb the completeness of the target, one by one.
LEMMA CompleteStep ==
  ASSUME BulkIsVerified, TypeOK, ControlInv, CoverInv, CompleteInv, CountedInv, [Next]_vars
  PROVE  CompleteInv'
<1>1. CASE UNCHANGED vars
  BY <1>1 DEF vars, CompleteInv, Complete
<1>2. ASSUME NEW r, Halt(r), UNCHANGED <<tgt, src>>, cp' \in {cp, NoCheckpoint, mem}
      PROVE  CompleteInv'
  <2>1. ~Complete(NoCheckpoint) /\ mem' = NoCheckpoint /\ pc' = "idle"
    BY <1>2 DEF Halt, NoCheckpoint, Complete
  <2> QED
    BY <1>2, <2>1, CompleteKept
<1>3. ASSUME UNCHANGED <<src, cp, mem>>, tgt.pts \subseteq tgt'.pts,
             pc' \notin {"restore", "saveVerify"}
      PROVE  CompleteInv'
  BY <1>3, CompleteKept
<1>4. ASSUME NEW o \in Options, StartFresh(o) PROVE CompleteInv'
  <2>1. /\ ~Complete(mem') /\ (Complete(cp') => Complete(cp)) /\ pc' = "schema"
        /\ UNCHANGED <<src, tgt>>
    BY <1>4 DEF StartFresh, BeginRun, NewCheckpoint, NoCheckpoint, Complete
  <2> QED
    BY <2>1, CompleteKept
<1>5. ASSUME NEW o \in Options, StartResumed(o) PROVE CompleteInv'
  <2>1. mem' = cp /\ cp' = cp /\ pc' \in {"schema", "ingest", "decide"} /\ UNCHANGED <<src, tgt>>
    BY <1>5 DEF StartResumed, BeginRun
  <2> QED
    BY <2>1, CompleteKept
<1>6. ASSUME NEW o \in Options, StartRefused(o) \/ FailStart(o) PROVE CompleteInv'
  BY <1>3, <1>6 DEF StartRefused, FailStart, stores
<1>7. CASE DropTarget \/ CreateTarget \/ KeepTarget \/ CreateShardKeys
  <2>1. /\ cp'.phase = "none" /\ mem'.phase \in {"schema", "ingest"}
        /\ pc' \in SchemaSteps /\ UNCHANGED src /\ src.exists
    BY <1>7 DEF DropTarget, CreateTarget, KeepTarget, CreateShardKeys, Goto, stores, TypeOK,
                Checkpoints, ControlInv, SchemaInv, SchemaSteps, CoverInv, SourceInv
  <2> QED
    BY <2>1 DEF SchemaSteps, CompleteInv, Complete
<1>8. CASE SaveIngest
  <2>1. cp' = mem /\ mem' = mem /\ pc' = "ingest" /\ UNCHANGED <<src, tgt>>
    BY <1>8 DEF SaveIngest, Goto
  <2> QED
    BY <2>1, CompleteKept
<1>9. CASE FetchPage \/ SendWindow \/ CloseChannel \/ ReceiveWindow \/ IssueChunk
  BY <1>3, <1>9 DEF FetchPage, SendWindow, CloseChannel, ReceiveWindow, IssueChunk, stores, control
<1>10. CASE EnsureShardKey
  BY <1>3, <1>10 DEF EnsureShardKey, control, TypeOK
<1>11. CASE RejectWindow \/ FailWindow \/ InterruptIngest
  BY <1>3, <1>11 DEF RejectWindow, FailWindow, InterruptIngest, FailIngest, stores
<1>12. ASSUME NEW g \in cons.inflight, UpsertDone(g) \/ UpsertRejected(g) \/ UpsertLost(g)
       PROVE  CompleteInv'
  <2>1. UNCHANGED <<src, cp, mem, pc>> /\ pc = "ingest"
    BY <1>12 DEF UpsertDone, UpsertRejected, UpsertLost, stores, control
  <2>2. tgt.pts \subseteq tgt'.pts
    <3>1. CASE UpsertDone(g) \/ UpsertRejected(g)
      BY <3>1 DEF UpsertDone, UpsertRejected, TypeOK, stores
    <3>2. CASE UpsertLost(g)
      <4>1. PICK applied \in SUBSET g.pts : tgt' = [tgt EXCEPT !.pts = @ \cup applied]
        BY <3>2 DEF UpsertLost
      <4> QED
        BY <4>1 DEF TypeOK
    <3> QED
      BY <1>12, <3>1, <3>2
  <2> QED
    BY <1>3, <2>1, <2>2
<1>13. CASE CommitWindow \/ LoseWindowSave
  <2>1. mem'.phase = "ingest" /\ cp' \in {cp, mem'} /\ UNCHANGED <<src, tgt>>
        /\ pc' \in {"ingest", "decide"}
    BY <1>13, CountedType DEF CommitWindow, LoseWindowSave, stores, control, TypeOK,
                              ControlInv, PhaseInv
  <2>2. ~Complete(mem')
    BY <2>1 DEF Complete
  <2> QED
    BY <2>1, <2>2, CompleteKept
<1>14. CASE FinishIngest \/ LoseIngestSave
  <2>1. Wanted \subseteq tgt.pts /\ UNCHANGED tgt /\ pc' = "decide"
    BY <1>14, IngestComplete DEF FinishIngest, LoseIngestSave, Goto, stores
  <2> QED
    BY <2>1, CompleteFull
<1>15. CASE Decide
  <2>1. CASE Halt("error")
    BY <1>2, <1>15, <2>1 DEF Decide, stores
  <2>2. CASE RestoreNeeded /\ pc' = "restore" /\ mem' = mem
    <3>1. mem.fast
      BY <1>15, <2>2 DEF Decide, RestoreNeeded, ControlInv, PhaseInv
    <3> QED
      BY <1>15, <2>2, <3>1 DEF Decide, stores, CompleteInv, Complete
  <2>3. CASE ~ingestErr /\ pc' = (IF mem.phase = "done" THEN "remove" ELSE mem.phase) /\ mem' = mem
    <3>1. mem.phase \in AfterIngest /\ UNCHANGED stores
      BY <1>15, <2>3 DEF Decide, ControlInv, PhaseInv
    <3> QED
      BY <1>3, <2>3, <3>1 DEF AfterIngest, stores
  <2> QED
    BY <1>15, <2>1, <2>2, <2>3 DEF Decide
<1>16. CASE RestoreOptimizers
  <2>1. /\ mem'.phase = "verify" /\ mem'.fast = mem.fast /\ pc' = "saveVerify"
        /\ tgt'.pts = tgt.pts /\ UNCHANGED <<src, cp>> /\ pc = "restore"
    BY <1>16 DEF RestoreOptimizers, Goto, TypeOK, Checkpoints
  <2> QED
    BY <2>1 DEF CompleteInv, Complete
<1>17. CASE SaveVerify
  <2>1. CASE ingestErr
    BY <1>2, <1>17, <2>1 DEF SaveVerify
  <2>2. CASE ~ingestErr
    <3>1. cp' = mem /\ mem' = mem /\ pc' = "verify" /\ UNCHANGED <<src, tgt>>
      BY <1>17, <2>2 DEF SaveVerify
    <3> QED
      BY <3>1, CompleteKept
  <2> QED
    BY <2>1, <2>2
<1>18. CASE Verify
  <2>1. pc = "verify" /\ mem.phase = "verify" /\ mem.fast = opts.fast /\ opts \in Options
    BY <1>18 DEF Verify, ControlInv, PhaseInv, TypeOK
  <2>2. Wanted \subseteq tgt.pts
    <3>1. CASE opts.verify
      BY <1>18, <2>1, <3>1, CountsTell DEF Verify, CountedInv
    <3>2. CASE ~opts.verify
      <4>1. ~mem.fast
        BY <2>1, <3>2 DEF BulkIsVerified
      <4> QED
        BY <2>1, <4>1 DEF CompleteInv, Complete
    <3> QED
      BY <3>1, <3>2
  <2>3. UNCHANGED tgt /\ pc' \in {"cutover", "remove"}
    BY <1>18 DEF Verify, Goto
  <2> QED
    BY <2>2, <2>3, CompleteFull
<1>19. CASE CutoverAlias \/ SaveDone \/ DropSource
  <2>1. Complete(mem)
    BY <1>19 DEF CutoverAlias, SaveDone, DropSource, ControlInv, PhaseInv, Complete
  <2>2. UNCHANGED tgt /\ pc' \in {"drop", "saveDone", "remove"}
    BY <1>19 DEF CutoverAlias, SaveDone, DropSource, Goto
  <2> QED
    BY <2>1, <2>2, CompleteFull DEF CompleteInv
<1>20. CASE CountMismatch \/ Crash \/ RemoveCheckpoint
  BY <1>2, <1>20 DEF CountMismatch, Crash, RemoveCheckpoint, stores
<1>21. CASE FailStep
  <2>1. /\ cp' = cp /\ pc' = "idle" /\ ~Complete(mem')
    BY <1>21 DEF FailStep, Halt, NoCheckpoint, stores, Complete
  <2>2. CASE pc \in {"schema", "create"}
    <3>1. cp.phase = "none" /\ src.exists /\ UNCHANGED src
      BY <1>21, <2>2 DEF FailStep, stores, ControlInv, SchemaInv, SchemaSteps, CoverInv, SourceInv
    <3> QED
      BY <2>1, <3>1 DEF CompleteInv, Complete
  <2>3. CASE pc = "drop"
    <3>1. Complete(mem) /\ UNCHANGED tgt
      BY <1>21, <2>3 DEF FailStep, stores, ControlInv, PhaseInv, Complete
    <3> QED
      BY <2>1, <3>1, CompleteFull DEF CompleteInv
  <2>4. CASE pc \notin {"schema", "create", "drop"}
    <3>1. tgt.pts \subseteq tgt'.pts /\ src' = src
      BY <1>21, <2>4 DEF FailStep, stores, TypeOK
    <3> QED
      BY <2>1, <3>1, CompleteKept
  <2> QED
    BY <2>2, <2>3, <2>4
<1>22. ASSUME NEW p \in Late, WriteSource(p) PROVE CompleteInv'
  <2>1. src'.exists /\ UNCHANGED <<tgt, cp, mem, pc>>
    BY <1>22 DEF WriteSource, TypeOK
  <2> QED
    BY <2>1 DEF CompleteInv, Complete
<1> QED
  BY <1>1, <1>4, <1>5, <1>6, <1>7, <1>8, <1>9, <1>10, <1>11, <1>12, <1>13, <1>14, <1>15, <1>16,
     <1>17, <1>18, <1>19, <1>20, <1>21, <1>22
     DEF Next, Operator, Sequence, Produce, Consume, Upsert, Failure

-----------------------------------------------------------------------------
(* Swap and drop, and the invariant as a whole.                            *)

\* The alias and the target: only a complete target is swapped to, and a target
\* the alias points at is only emptied by dropping it, alias and all.
LEMMA AliasStep ==
  ASSUME TypeOK, ControlInv, CompleteInv, AliasInv, CutoverComplete, [Next]_vars
  PROVE  AliasInv' /\ CutoverComplete'
<1> USE DEF AliasInv, CutoverComplete
<1> DEFINE Goal == AliasInv' /\ CutoverComplete'
<1>1. CASE UNCHANGED vars
  BY <1>1 DEF vars
<1>2. ASSUME UNCHANGED <<tgt, alias>>, pc' # "create", pc' # "drop",
             cp'.phase = "none" \/ tgt.exists,
             pc' \in {"idle", "schema"} \/ tgt.exists
      PROVE  Goal
  BY <1>2
<1>3. ASSUME NEW r, Halt(r), UNCHANGED <<tgt, alias>>, cp' \in {cp, NoCheckpoint} \/ tgt.exists
      PROVE  Goal
  BY <1>2, <1>3 DEF Halt, NoCheckpoint
<1>4. ASSUME NEW o \in Options, StartFresh(o) PROVE Goal
  <2>1. pc' = "schema" /\ UNCHANGED <<tgt, alias>> /\ cp'.phase = "none"
    BY <1>4 DEF StartFresh, BeginRun, Fresh, NewCheckpoint, NoCheckpoint
  <2> QED
    BY <1>2, <2>1
<1>5. ASSUME NEW o \in Options, StartResumed(o) PROVE Goal
  <2>1. pc' \notin {"create", "drop"} /\ UNCHANGED <<tgt, alias>> /\ cp.phase # "none"
    BY <1>5 DEF StartResumed, BeginRun, Accepted, Resumable
  <2> QED
    BY <1>2, <2>1
<1>6. ASSUME NEW o \in Options, StartRefused(o) \/ FailStart(o) PROVE Goal
  BY <1>6 DEF StartRefused, FailStart, stores
<1>7. CASE DropTarget
  <2>1. /\ ~tgt'.exists /\ alias' # "target" /\ cp'.phase = "none" /\ pc' = "create"
    BY <1>7 DEF DropTarget, Goto, NoTarget, ControlInv, SchemaInv, SchemaSteps
  <2> QED
    BY <2>1
<1>8. CASE CreateTarget
  <2>1. tgt'.exists /\ alias' # "target" /\ pc' = "indexes"
    BY <1>8 DEF CreateTarget, Goto
  <2> QED
    BY <2>1
<1>9. CASE KeepTarget \/ SaveIngest
  BY <1>2, <1>9 DEF KeepTarget, SaveIngest, Goto, stores
<1>10. CASE CreateShardKeys \/ EnsureShardKey \/ RestoreOptimizers
  <2>1. /\ tgt'.exists /\ tgt'.pts = tgt.pts /\ alias' = alias /\ pc' \notin {"create", "drop"}
    BY <1>10 DEF CreateShardKeys, EnsureShardKey, RestoreOptimizers, Goto, control, TypeOK
  <2> QED
    BY <2>1
<1>11. CASE FetchPage \/ SendWindow \/ CloseChannel \/ ReceiveWindow \/ IssueChunk
  BY <1>2, <1>11 DEF FetchPage, SendWindow, CloseChannel, ReceiveWindow, IssueChunk, stores, control
<1>12. CASE RejectWindow \/ FailWindow \/ InterruptIngest
  BY <1>2, <1>12 DEF RejectWindow, FailWindow, InterruptIngest, FailIngest, stores
<1>13. ASSUME NEW g \in cons.inflight, UpsertDone(g) \/ UpsertRejected(g) \/ UpsertLost(g)
       PROVE  Goal
  <2>1. UNCHANGED <<alias, cp, pc>> /\ pc = "ingest"
    BY <1>13 DEF UpsertDone, UpsertRejected, UpsertLost, stores, control
  <2>2. tgt.pts \subseteq tgt'.pts /\ tgt'.exists = tgt.exists
    <3>1. CASE UpsertDone(g) \/ UpsertRejected(g)
      BY <3>1 DEF UpsertDone, UpsertRejected, TypeOK, stores
    <3>2. CASE UpsertLost(g)
      <4>1. PICK applied \in SUBSET g.pts : tgt' = [tgt EXCEPT !.pts = @ \cup applied]
        BY <3>2 DEF UpsertLost
      <4> QED
        BY <4>1 DEF TypeOK
    <3> QED
      BY <1>13, <3>1, <3>2
  <2> QED
    BY <2>1, <2>2
<1>14. CASE CommitWindow \/ LoseWindowSave \/ FinishIngest \/ LoseIngestSave
  <2>1. UNCHANGED <<tgt, alias>> /\ pc = "ingest" /\ pc' \in {"ingest", "decide"}
    BY <1>14 DEF CommitWindow, LoseWindowSave, FinishIngest, LoseIngestSave, Goto, stores, control
  <2> QED
    BY <1>2, <2>1
<1>15. CASE Decide
  <2>1. UNCHANGED <<tgt, alias, cp>> /\ pc = "decide" /\ pc' \notin {"create", "drop"}
    BY <1>15 DEF Decide, Halt, stores, ControlInv, PhaseInv, AfterIngest
  <2> QED
    BY <1>2, <2>1
<1>16. CASE SaveVerify \/ Verify \/ SaveDone
  <2>1. UNCHANGED <<tgt, alias>> /\ pc' \notin {"create", "drop"}
        /\ pc \in {"saveVerify", "verify", "saveDone"}
    BY <1>16 DEF SaveVerify, Verify, SaveDone, Goto, Halt
  <2> QED
    BY <1>2, <2>1
<1>17. CASE CountMismatch \/ Crash \/ RemoveCheckpoint
  BY <1>3, <1>17 DEF CountMismatch, Crash, RemoveCheckpoint, stores
<1>18. CASE CutoverAlias \/ DropSource
  <2>1. /\ Wanted \subseteq tgt.pts /\ tgt.exists
        /\ UNCHANGED <<tgt, cp>> /\ pc' # "create"
    BY <1>18 DEF CutoverAlias, DropSource, Goto, CompleteInv, ControlInv, PhaseInv, Complete
  <2>2. opts.drop => opts.cutover
    BY MigrateAssumption DEF TypeOK, ValidOptions
  <2>3. pc' = "drop" => alias' = "target"
    BY <1>18, <2>2 DEF CutoverAlias, DropSource, Goto
  <2> QED
    BY <2>1, <2>3
<1>19. CASE FailStep
  <2>1. cp' = cp /\ pc' = "idle"
    BY <1>19 DEF FailStep, Halt, stores
  <2>2. CASE pc \in {"schema", "create"}
    <3>1. cp.phase = "none"
      BY <2>2 DEF ControlInv, SchemaInv, SchemaSteps
    <3>2. \/ UNCHANGED <<tgt, alias>>
          \/ alias' # "target"
      BY <1>19, <2>2 DEF FailStep, stores
    <3> QED
      BY <2>1, <3>1, <3>2
  <2>3. CASE pc \notin {"schema", "create"}
    <3>1. tgt.pts \subseteq tgt'.pts /\ tgt'.exists = tgt.exists
      BY <1>19, <2>3 DEF FailStep, stores, TypeOK
    <3>2. alias' = alias \/ pc = "cutover"
      BY <1>19, <2>3 DEF FailStep, stores
    <3>3. pc = "cutover" => Wanted \subseteq tgt.pts /\ tgt.exists
      BY DEF CompleteInv, ControlInv, PhaseInv, Complete
    <3> QED
      BY <2>1, <3>1, <3>2, <3>3
  <2> QED
    BY <2>2, <2>3
<1>20. ASSUME NEW p \in Late, WriteSource(p) PROVE Goal
  BY <1>20 DEF WriteSource, control
<1> QED
  BY <1>1, <1>4, <1>5, <1>6, <1>7, <1>8, <1>9, <1>10, <1>11, <1>12, <1>13, <1>14, <1>15, <1>16,
     <1>17, <1>18, <1>19, <1>20
     DEF Next, Operator, Sequence, Produce, Consume, Upsert, Failure
LEMMA FullInit == Init => FullInv
BY InvInit, CopiedInit, CompleteInit DEF FullInv

LEMMA FullStep ==
  ASSUME BulkIsVerified
  PROVE  FullInv /\ [Next]_vars => FullInv'
BY InvStep, CopiedStep, CountedStep, CompleteStep, AliasStep DEF FullInv, Inv

LEMMA FullAlways ==
  ASSUME BulkIsVerified
  PROVE  Spec => []FullInv
<1>1. FullInv /\ [Next]_vars => FullInv'
  BY FullStep
<1> QED
  BY <1>1, FullInit, PTL DEF Spec

\* The alias only ever points at a complete target, through every failure, restart
\* and resume: with --no-fast-bulk, and for fast runs when each of them verifies and
\* the target holds nothing else.
THEOREM CutoverIsComplete ==
  ASSUME BulkIsVerified
  PROVE  Spec => []CutoverComplete
<1>1. FullInv => CutoverComplete
  BY DEF FullInv
<1> QED
  BY <1>1, FullAlways, PTL

\* No sequence of runs loses a wanted point, even with --recreate and
\* --drop-source-after-cutover: with --no-fast-bulk also under --no-verify, and for
\* fast runs that verify also while the application goes on writing to the source.
THEOREM NoPointLost ==
  ASSUME BulkIsVerified
  PROVE  Spec => []NothingLost
<1>1. FullInv => NothingLost
  BY WantedPoints DEF FullInv, Inv, CoverInv, SourceInv, CompleteInv, NothingLost
<1> QED
  BY <1>1, FullAlways, PTL

-----------------------------------------------------------------------------
(* The migration implements its contract. *)

\* The contract's variables, as the refinement mapping reads them off.
SourceHolds == src.pts \cap Wanted
TargetHolds == tgt.pts \cap Wanted
Swapped     == alias = "target"

\* Every step of the migration is one of the contract or leaves its variables alone.
LEMMA ContractStep ==
  ASSUME BulkIsVerified, FullInv, [Next]_vars
  PROVE  [Contract!Next]_(Contract!vars)
<1> USE DEF SourceHolds, TargetHolds, Swapped
<1> DEFINE Goal == [Contract!Next]_(Contract!vars)
<1>1. ASSUME UNCHANGED <<SourceHolds, TargetHolds, Swapped>> PROVE Goal
  BY <1>1 DEF Contract!vars
<1>2. ASSUME UNCHANGED <<src, tgt, alias>> PROVE Goal
  BY <1>1, <1>2
<1>3. src.exists => SourceHolds = Wanted
  BY WantedPoints DEF FullInv, Inv, CoverInv, SourceInv
<1>4. ASSUME src.exists, TargetHolds' = {}, ~Swapped', UNCHANGED src PROVE Goal
  BY <1>3, <1>4 DEF Contract!Next, Contract!Empty
<1>5. ASSUME src.exists, NEW pts \in SUBSET Points, tgt'.pts = tgt.pts \cup pts,
             UNCHANGED <<src, alias>>
      PROVE  Goal
  <2>1. TargetHolds' = TargetHolds \cup (pts \cap Wanted)
    BY <1>5
  <2>2. pts \cap Wanted \in SUBSET SourceHolds
    BY <1>3, <1>5
  <2>3. Contract!Copy
    BY <1>5, <2>1, <2>2 DEF Contract!Copy
  <2> QED
    BY <2>3 DEF Contract!Next
<1>6. ASSUME Wanted \subseteq tgt.pts, UNCHANGED <<src, tgt>>, alias' = "target" PROVE Goal
  <2>1. TargetHolds = Wanted
    BY <1>6
  <2> QED
    BY <1>6, <2>1 DEF Contract!Next, Contract!Swap
<1>7. CASE UNCHANGED vars
  BY <1>2, <1>7 DEF vars
<1>8. CASE Operator
  BY <1>2, <1>8 DEF Operator, StartFresh, StartResumed, StartRefused, BeginRun, stores
<1>9. CASE DropTarget \/ CreateTarget
  <2>1. src.exists /\ UNCHANGED src /\ tgt'.pts = {}
    BY <1>9 DEF DropTarget, CreateTarget, NoTarget, FullInv, Inv, CoverInv, SourceInv, SchemaSteps
  <2>2. alias' # "target"
    BY <1>9 DEF DropTarget, CreateTarget, FullInv, AliasInv
  <2> QED
    BY <1>4, <2>1, <2>2
<1>10. CASE KeepTarget \/ SaveIngest \/ FetchPage \/ SendWindow \/ CloseChannel \/ ReceiveWindow
            \/ IssueChunk
  BY <1>2, <1>10 DEF KeepTarget, SaveIngest, FetchPage, SendWindow, CloseChannel, ReceiveWindow,
                     IssueChunk, stores
<1>11. CASE CreateShardKeys \/ EnsureShardKey \/ RestoreOptimizers
  <2>1. tgt'.pts = tgt.pts /\ UNCHANGED <<src, alias>>
    BY <1>11 DEF CreateShardKeys, EnsureShardKey, RestoreOptimizers, FullInv, Inv, TypeOK
  <2> QED
    BY <1>1, <2>1
<1>12. CASE RejectWindow \/ FailWindow \/ InterruptIngest \/ CommitWindow \/ LoseWindowSave
            \/ FinishIngest \/ LoseIngestSave \/ Decide \/ SaveVerify \/ Verify \/ CountMismatch
            \/ SaveDone \/ RemoveCheckpoint \/ Crash
  BY <1>2, <1>12 DEF RejectWindow, FailWindow, InterruptIngest, CommitWindow, LoseWindowSave,
       FinishIngest, LoseIngestSave, Decide, SaveVerify, Verify, CountMismatch, SaveDone,
       RemoveCheckpoint, Crash, stores
<1>13. ASSUME NEW g \in cons.inflight, UpsertDone(g) \/ UpsertRejected(g) \/ UpsertLost(g)
       PROVE  Goal
  <2>1. g.pts \in SUBSET Points
    BY <1>13 DEF FullInv, Inv, TypeOK, UpsertGroups
  <2>2. src.exists
    BY <1>13 DEF UpsertDone, UpsertRejected, UpsertLost, FullInv, Inv, CoverInv, SourceInv
  <2>3. CASE UpsertDone(g)
    <3>1. tgt'.pts = tgt.pts \cup g.pts /\ UNCHANGED <<src, alias>>
      BY <2>3 DEF UpsertDone, FullInv, Inv, TypeOK
    <3> QED
      BY <1>5, <2>1, <2>2, <3>1
  <2>4. CASE UpsertRejected(g)
    BY <1>2, <2>4 DEF UpsertRejected, stores
  <2>5. CASE UpsertLost(g)
    <3>1. PICK applied \in SUBSET g.pts : tgt' = [tgt EXCEPT !.pts = @ \cup applied]
      BY <2>5 DEF UpsertLost
    <3>2. tgt'.pts = tgt.pts \cup applied /\ applied \in SUBSET Points /\ UNCHANGED <<src, alias>>
      BY <2>1, <2>5, <3>1 DEF UpsertLost, FullInv, Inv, TypeOK
    <3> QED
      BY <1>5, <2>2, <3>2
  <2> QED
    BY <1>13, <2>3, <2>4, <2>5
<1>14. CASE CutoverAlias
  <2>1. Wanted \subseteq tgt.pts /\ UNCHANGED <<src, tgt>> /\ alias' \in {alias, "target"}
    BY <1>14 DEF CutoverAlias, FullInv, Inv, ControlInv, PhaseInv, CompleteInv, Complete
  <2> QED
    BY <1>2, <1>6, <2>1
<1>15. ASSUME pc = "drop", src'.pts = {}, UNCHANGED <<tgt, alias>> PROVE Goal
  <2>1. TargetHolds = Wanted /\ SourceHolds' = {}
    BY <1>15 DEF FullInv, Inv, ControlInv, PhaseInv, CompleteInv, Complete
  <2>2. Swapped
    BY <1>15 DEF FullInv, AliasInv
  <2> QED
    BY <1>15, <2>1, <2>2 DEF Contract!Next, Contract!Drop
<1>16. CASE DropSource
  BY <1>15, <1>16 DEF DropSource
<1>17. CASE FailStep
  <2>1. CASE UNCHANGED stores
    BY <1>2, <2>1 DEF stores
  <2>2. CASE /\ pc = "schema" /\ opts.recreate /\ tgt.exists
             /\ tgt' = NoTarget
             /\ alias' = IF alias = "target" THEN "none" ELSE alias
             /\ UNCHANGED <<src, cp>>
    <3>1. src.exists
      BY <2>2 DEF FullInv, Inv, CoverInv, SourceInv, SchemaSteps
    <3> QED
      BY <1>4, <2>2, <3>1 DEF NoTarget
  <2>3. CASE /\ pc = "create" \/ (pc = "schema" /\ ~tgt.exists)
             /\ tgt' = [exists |-> TRUE, pts |-> {}, keys |-> {},
                        threshold |-> IF opts.fast THEN "bulk" ELSE "original"]
             /\ UNCHANGED <<src, alias, cp>>
    <3>1. src.exists /\ alias # "target"
      BY <2>3 DEF FullInv, Inv, CoverInv, SourceInv, SchemaSteps, AliasInv
    <3> QED
      BY <1>4, <2>3, <3>1
  <2>4. CASE pc \in {"indexes", "restore"} /\ tgt'.pts = tgt.pts /\ UNCHANGED <<src, alias, cp>>
    BY <1>1, <2>4
  <2>5. CASE pc = "cutover" /\ alias' = "target" /\ UNCHANGED <<src, tgt, cp>>
    <3>1. Wanted \subseteq tgt.pts
      BY <2>5 DEF FullInv, Inv, ControlInv, PhaseInv, CompleteInv, Complete
    <3> QED
      BY <1>6, <2>5, <3>1
  <2>6. CASE pc = "drop" /\ src' = [exists |-> FALSE, pts |-> {}] /\ UNCHANGED <<tgt, alias, cp>>
    BY <1>15, <2>6
  <2> QED
    BY <1>17, <2>1, <2>2, <2>3, <2>4, <2>5, <2>6 DEF FailStep, FullInv, Inv, TypeOK
<1>18. ASSUME NEW o \in Options, FailStart(o) PROVE Goal
  BY <1>2, <1>18 DEF FailStart, stores
<1>19. ASSUME NEW p \in Late, WriteSource(p) PROVE Goal
  <2>1. src'.exists /\ src.exists /\ UNCHANGED <<tgt, alias>> /\ src.pts \subseteq src'.pts
    BY <1>19 DEF WriteSource, FullInv, Inv, TypeOK
  <2>2. SourceHolds' = SourceHolds
    BY <1>3, <2>1
  <2> QED
    BY <1>1, <2>1, <2>2
<1> QED
  BY <1>7, <1>8, <1>9, <1>10, <1>11, <1>12, <1>13, <1>14, <1>16, <1>17, <1>18, <1>19
     DEF Next, Sequence, Produce, Consume, Upsert, Failure

LEMMA ContractInit == Init => Contract!Init
BY WantedPoints, MigrateAssumption DEF Init, Contract!Init

\* For such options the migration implements MigrateContract: a step empties
\* the target only while the source is whole and the alias is elsewhere, swaps
\* the alias only to a full target, and drops the source only after that.
THEOREM ImplementsContract ==
  ASSUME BulkIsVerified
  PROVE  Spec => Migrates
<1>1. FullInv /\ [Next]_vars => [Contract!Next]_(Contract!vars)
  BY ContractStep
<1> QED
  BY <1>1, ContractInit, FullAlways, PTL DEF Spec, Migrates, Contract!Spec
=============================================================================
