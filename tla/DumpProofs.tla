----------------------------- MODULE DumpProofs -----------------------------
(***************************************************************************)
(* What a script of `qql dump` says of the collection, and what becomes of *)
(* the output, for every collection, page size, number of writes, runs and *)
(* faults.                                                                 *)
(***************************************************************************)
EXTENDS Dump, ScrollPagesProofs

\* A file has its three parts, whatever they hold.
IsFile(f) == f = File(f.is, f.keys, f.batches)

LEMMA FilesAreFiles ==
  ASSUME NEW is, NEW ks, NEW batches
  PROVE  IsFile(File(is, ks, batches)) /\ File(is, ks, batches).is = is
  BY DEF IsFile, File

\* Only a whole temporary file gets as far as the rename, and a copy that was
\* filled is one of it.
FileInv ==
  /\ IsFile(tmp)
  /\ pc \in {"rename", "copy", "fill", "unlink"} => tmp.is = "whole"
  /\ pc = "unlink" => out = tmp

LEMMA FileInvariant == Spec => []FileInv
<1>1. Init => FileInv
  BY FilesAreFiles DEF Init, FileInv, NoFile
<1>2. FileInv /\ [Next]_vars => FileInv'
  <2> SUFFICES ASSUME FileInv, [Next]_vars PROVE FileInv'
    OBVIOUS
  <2>1. ASSUME Fail PROVE FileInv'
    BY <2>1, FilesAreFiles DEF Fail, RemoveTmp, Goto, NoFile, FileInv
  <2>2. CASE Start
    BY <2>2 DEF Start, FileInv, IsFile
  <2>3. CASE Check
    BY <2>1, <2>3 DEF Check, Goto, FileInv, IsFile
  <2>4. CASE CreateFile
    BY <2>1, <2>4, FilesAreFiles DEF CreateFile, Goto, FileInv
  <2>5. CASE ListKeys
    BY <2>1, <2>5 DEF ListKeys, Goto, FileInv, IsFile, File
  <2>6. CASE NextPage
    BY <2>1, <2>6 DEF NextPage, Goto, FileInv, IsFile, File
  <2>7. CASE NextShard
    BY <2>7 DEF NextShard, Goto, FileInv, IsFile
  <2>8. CASE Flush
    BY <2>1, <2>8 DEF Flush, Goto, FileInv, IsFile, File
  <2>9. CASE Rename
    BY <2>9, FilesAreFiles DEF Rename, Goto, NoFile, FileInv, IsFile
  <2>10. CASE OpenCopy
    BY <2>10 DEF OpenCopy, Goto, FileInv, IsFile
  <2>11. CASE FillCopy
    BY <2>11 DEF FillCopy, Goto, FileInv, IsFile
  <2>12. CASE Unlink
    BY <2>12, FilesAreFiles DEF Unlink, RemoveTmp, Goto, NoFile, FileInv, IsFile
  <2>13. CASE Kill
    BY <2>13 DEF Kill, Goto, FileInv, IsFile
  <2>14. CASE Write
    BY <2>14 DEF Write, FileInv, IsFile
  <2>15. CASE UNCHANGED vars
    BY <2>15 DEF vars, FileInv, IsFile
  <2> QED
    BY <2>2, <2>3, <2>4, <2>5, <2>6, <2>7, <2>8, <2>9, <2>10, <2>11, <2>12, <2>13, <2>14, <2>15
       DEF Next, Run, Over
<1> QED
  BY <1>1, <1>2, PTL DEF Spec

-----------------------------------------------------------------------------
(* The streams of a dump. *)

\* The shards a point can be in.
Of(ks) == IF ks = {} THEN {NoKey} ELSE ks

\* Every shard has one stream.
LEMMA OneStreamEach ==
  ASSUME NEW ks \in SUBSET Keys
  PROVE  /\ ShardStreams(ks) \in Seq(Of(ks))
         /\ \A s \in Of(ks) : \E i \in DOMAIN ShardStreams(ks) : ShardStreams(ks)[i] = s
         /\ \A i, j \in DOMAIN ShardStreams(ks) :
              ShardStreams(ks)[i] = ShardStreams(ks)[j] => i = j
<1>1. CASE ks = {}
  BY <1>1 DEF ShardStreams, Of
<1>2. CASE ks # {}
  <2>1. IsFiniteSet(ks)
    BY DumpAssumption, FS_Subset
  <2> DEFINE n == Cardinality(ks)
  <2>2. n \in Nat /\ ExistsBijection(1..n, ks)
    BY <2>1, FS_CardinalityType
  <2>3. \E f \in [1..n -> ks] : IsInjective(f)
    BY <2>2 DEF ExistsBijection, Bijection, Injection, IsInjective
  <2> DEFINE f == SetToSeq(ks)
  <2>4. f \in [1..n -> ks] /\ IsInjective(f)
    BY <2>3 DEF SetToSeq
  <2>5. IsFiniteSet(1..n) /\ Cardinality(1..n) = n
    BY <2>2, FS_Interval
  <2>6. ASSUME NEW s \in ks PROVE \E i \in 1..n : f[i] = s
    <3> SUFFICES ASSUME \A i \in 1..n : f[i] # s PROVE FALSE
      OBVIOUS
    <3> DEFINE T == ks \ {s}
    <3>1. IsFiniteSet(T) /\ Cardinality(T) = n - 1
      BY <2>1, FS_RemoveElement
    <3>2. f \in [1..n -> T]
      <4> HIDE DEF f
      <4>1. \A i \in 1..n : f[i] \in T
        BY <2>4
      <4> HIDE DEF T
      <4> QED BY <2>4, <4>1
    <3>3. Cardinality(T) < Cardinality(1..n)
      <4> HIDE DEF T, n
      <4> QED BY <2>2, <2>5, <3>1
    <3> HIDE DEF T, f, n
    <3>4. \E x, y \in 1..n : x # y /\ f[x] = f[y]
      BY <2>5, <3>1, <3>2, <3>3, FS_PigeonHole
    <3> QED BY <2>4, <3>4 DEF IsInjective
  <2>7. ShardStreams(ks) = f /\ Of(ks) = ks
    BY <1>2 DEF ShardStreams, Of
  <2> HIDE DEF f, n
  <2>8. f \in Seq(ks) /\ DOMAIN f = 1..n
    BY <2>2, <2>4
  <2> QED BY <2>4, <2>6, <2>7, <2>8 DEF IsInjective
<1> QED BY <1>1, <1>2

\* A page of a stream that dropped its cursor, or has none, lies strictly behind it.
LEMMA PageBeyond ==
  ASSUME NEW st \in Streams, NEW pts \in SUBSET Points, st.fellBack \/ st.after = Origin
  PROVE  /\ \A p \in Page(st, pts) : st.after < p /\ p <= Advance(st, pts).after
         /\ Advance(st, pts).fellBack \/ Advance(st, pts).after = Origin
<1> DEFINE page == Page(st, pts)
<1>1. /\ st.after \in Nat
      /\ st = [after |-> st.after, fellBack |-> st.fellBack, done |-> st.done]
  BY PointsAreNaturals DEF Streams
<1>2. Probe(pts, st.after) \in SUBSET {p \in pts : p >= st.after}
  BY DEF Probe, Smallest, AtOrAfter
<1>3. \A p \in page : p \in Points /\ p \in Nat /\ p >= st.after /\ (st.fellBack => p # st.after)
  BY <1>2, PointsAreNaturals DEF Page
<1>4. \A p \in page : st.after < p
  BY <1>1, <1>3, PointsAreNaturals
<1>5. CASE page = {}
  BY <1>1, <1>5 DEF Advance
<1>6. CASE page # {}
  <2>1. \A p \in page : p <= Max(page)
    BY <1>3, <1>6, MaxOfPoints
  <2>2. Advance(st, pts).after = Max(page) /\ Advance(st, pts).fellBack
    BY <1>6 DEF Advance
  <2> HIDE DEF page
  <2> QED BY <1>4, <2>1, <2>2 DEF page
<1> QED BY <1>5, <1>6

-----------------------------------------------------------------------------
(* What the batches say. *)

Closing == {"rename", "copy", "fill", "unlink"}

\* Where the points are, and which of them stayed there.
Located ==
  /\ keys \in SUBSET Keys
  /\ shardOf \in [Points -> Of(keys) \cup {Absent}]
  /\ stayed \in SUBSET Existing
  /\ pc \in Active => \A p \in Existing : <<shardOf[p], p>> \in seen

\* Every batch is of a shard, and was true of its points when it was written.
Said(batches) ==
  \A i \in DOMAIN batches :
    /\ batches[i].shard \in Of(keys)
    /\ \A p \in batches[i].points :
         <<batches[i].shard, p>> \in seen /\ (p \in stayed => batches[i].shard = shardOf[p])

WrittenOnce(batches, p) ==
  \E i \in DOMAIN batches :
    p \in batches[i].points /\ \A j \in DOMAIN batches : p \in batches[j].points => j = i

Unwritten(batches, p) == \A i \in DOMAIN batches : p \notin batches[i].points

\* The points that stayed: those of the shards behind are written, those of the
\* shards ahead are not, and in the shard of the stream the cursor tells.
Scrolled(batches) ==
  /\ todo \in Seq(Of(keys))
  /\ \A i, j \in 1..Len(todo) : todo[i] = todo[j] => i = j
  /\ stream \in Streams /\ (stream.fellBack \/ stream.after = Origin)
  /\ \A p \in stayed \ Odd :
       /\ (\A i \in 1..Len(todo) : todo[i] # shardOf[p]) => WrittenOnce(batches, p)
       /\ \A i \in 2..Len(todo) : todo[i] = shardOf[p] => Unwritten(batches, p)
       /\ todo # <<>> /\ todo[1] = shardOf[p] =>
            \/ p <= stream.after /\ WrittenOnce(batches, p)
            \/ p > stream.after /\ Unwritten(batches, p) /\ ~stream.done

DumpInv ==
  /\ Located
  /\ pc = "list" => tmp.batches = <<>>
  /\ pc \in {"pages"} \cup Closing => tmp.keys = keys /\ tmp.batches \in Batches /\ Said(tmp.batches)
  /\ pc = "pages" => Scrolled(tmp.batches)
  /\ pc \in Closing => \A p \in stayed \ Odd : WrittenOnce(tmp.batches, p)

\* It says what DumpIsFaithful asks for.
LEMMA InvFaithful == DumpInv => DumpIsFaithful
<1> SUFFICES ASSUME DumpInv, pc \in Closing PROVE Faithful(tmp)
  BY DEF DumpIsFaithful, Closing
<1>1. /\ keys \in SUBSET Keys /\ tmp.keys = keys
      /\ Said(tmp.batches) /\ \A p \in stayed \ Odd : WrittenOnce(tmp.batches, p)
  BY DEF DumpInv, Located
<1>2. NoKey \notin Keys
  BY DumpAssumption
<1>3. \A i \in DOMAIN tmp.batches :
        /\ tmp.batches[i].shard = NoKey <=> tmp.keys = {}
        /\ tmp.batches[i].shard \in tmp.keys \cup {NoKey}
        /\ \A p \in tmp.batches[i].points : <<tmp.batches[i].shard, p>> \in seen
  BY <1>1, <1>2 DEF Said, Of
<1>4. \A p \in stayed \ Odd :
        \E i \in DOMAIN tmp.batches :
           /\ p \in tmp.batches[i].points /\ tmp.batches[i].shard = shardOf[p]
           /\ \A j \in DOMAIN tmp.batches : p \in tmp.batches[j].points => j = i
  BY <1>1 DEF Said, WrittenOnce
<1> QED BY <1>3, <1>4 DEF Faithful

\* The run goes on, or ends.
LEMMA LocatedGoto ==
  ASSUME Located, UNCHANGED <<source, history>>, pc' \in Active => pc \in Active
  PROVE  Located'
  BY DEF Located, source, history, Existing

\* A step to where the batches do not matter yet, or no more.
LEMMA LeaveDump ==
  ASSUME DumpInv, UNCHANGED <<source, history>>, pc' \in Active => pc \in Active,
         pc' \notin {"list", "pages"} \cup Closing
  PROVE  DumpInv'
<1>1. Located'
  BY LocatedGoto DEF DumpInv
<1> QED BY <1>1 DEF DumpInv

\* A step behind the last page.
LEMMA CloseDump ==
  ASSUME DumpInv, UNCHANGED <<source, history, tmp>>, pc \in Closing, pc' \in Closing
  PROVE  DumpInv'
<1>1. pc' \notin {"list", "pages"} /\ pc \in Active
  BY DEF Closing, Active
<1>2. Located'
  BY <1>1, LocatedGoto DEF DumpInv
<1>3. UNCHANGED <<keys, shardOf, stayed, seen>>
  BY DEF source, history
<1>4. (tmp.keys = keys /\ tmp.batches \in Batches /\ Said(tmp.batches))'
      /\ (\A p \in stayed \ Odd : WrittenOnce(tmp.batches, p))'
  BY <1>3 DEF DumpInv, Said, WrittenOnce
<1> QED BY <1>1, <1>2, <1>4 DEF DumpInv

\* The header and the streams.
LEMMA ListDump ==
  ASSUME DumpInv, FileInv, ListKeys, ~Fail
  PROVE  DumpInv'
<1>1. /\ pc = "list" /\ pc' = "pages" /\ UNCHANGED <<source, history>>
      /\ tmp' = [tmp EXCEPT !.keys = keys]
      /\ todo' = ShardStreams(keys) /\ stream' = OpenAt(Origin)
  BY DEF ListKeys, Goto
<1>2. Located /\ Located' /\ tmp.batches = <<>>
  <2>1. Located /\ pc \in Active
    BY <1>1 DEF DumpInv, Active
  <2> QED BY <1>1, <2>1, LocatedGoto DEF DumpInv
<1>3. tmp'.keys = keys /\ tmp'.batches = <<>>
  BY <1>1, <1>2 DEF FileInv, IsFile, File
<1>4. UNCHANGED <<keys, shardOf, stayed, seen>>
  BY <1>1 DEF source, history
<1>5. /\ todo' \in Seq(Of(keys))
      /\ \A s \in Of(keys) : \E i \in DOMAIN todo' : todo'[i] = s
      /\ \A i, j \in DOMAIN todo' : todo'[i] = todo'[j] => i = j
  BY <1>1, <1>2, OneStreamEach DEF Located
<1>6. DOMAIN todo' = 1..Len(todo')
  BY <1>5
<1>7. stream' \in Streams /\ stream'.after = Origin /\ ~stream'.done
  BY <1>1 DEF OpenAt, Streams, Cursors
<1>8. ASSUME NEW p \in stayed \ Odd
      PROVE  /\ \E i \in 1..Len(todo') : todo'[i] = shardOf[p]
             /\ p > Origin /\ Unwritten(tmp'.batches, p)
  <2>1. p \in Points /\ shardOf[p] \in Of(keys)
    BY <1>2 DEF Located, Existing
  <2> QED BY <1>3, <1>5, <1>6, <2>1, PointsAreNaturals DEF Unwritten
<1>9. Scrolled(tmp.batches)'
  BY <1>4, <1>5, <1>6, <1>7, <1>8 DEF Scrolled, Unwritten
<1>10. (tmp.keys = keys /\ tmp.batches \in Batches /\ Said(tmp.batches))'
  BY <1>3, <1>4 DEF Batches, Said
<1> QED BY <1>1, <1>2, <1>9, <1>10 DEF DumpInv, Closing

\* A page without records adds no batch.
Added(batches, s, records) ==
  IF records = {} THEN batches ELSE Append(batches, [shard |-> s, points |-> records])

\* What a page adds to the batches.
LEMMA PageBatches ==
  ASSUME NEW batches \in Batches, NEW s \in Shards, NEW records \in SUBSET Points, NEW new,
         new = Added(batches, s, records)
  PROVE  /\ new \in Batches
         /\ \A i \in DOMAIN new : (i \in DOMAIN batches /\ new[i] = batches[i])
                                  \/ (new[i].shard = s /\ new[i].points = records)
         /\ \A p : p \notin records =>
              /\ WrittenOnce(batches, p) => WrittenOnce(new, p)
              /\ Unwritten(batches, p) => Unwritten(new, p)
         /\ \A p \in records : Unwritten(batches, p) => WrittenOnce(new, p)
<1>1. CASE records = {}
  BY <1>1 DEF Added
<1>2. CASE records # {}
  <2> DEFINE b == [shard |-> s, points |-> records]
             n == Len(batches)
  <2>1. b \in [shard : Shards, points : SUBSET Points] /\ b.points = records /\ b.shard = s
    OBVIOUS
  <2>2. new = Append(batches, b)
    BY <1>2 DEF Added
  <2> HIDE DEF b
  <2>3. /\ new \in Batches /\ n \in Nat
        /\ DOMAIN batches = 1..n /\ DOMAIN new = 1..(n + 1)
        /\ \A i \in 1..n : new[i] = batches[i]
        /\ new[n + 1] = b
    <3> DEFINE R == [shard : Shards, points : SUBSET Points]
    <3>1. batches \in Seq(R) /\ b \in R
      BY <2>1 DEF Batches
    <3> HIDE DEF R
    <3>2. new \in Seq(R)
      BY <2>2, <3>1
    <3> QED BY <2>2, <3>1, <3>2 DEF Batches, R
  <2> HIDE DEF n
  <2>4. \A i \in DOMAIN new : (i \in DOMAIN batches /\ new[i] = batches[i]) \/ (i = n + 1 /\ new[i] = b)
    BY <2>3
  <2>5. ASSUME NEW p, p \notin records
        PROVE  /\ WrittenOnce(batches, p) => WrittenOnce(new, p)
               /\ Unwritten(batches, p) => Unwritten(new, p)
    <3>1. \A i \in DOMAIN new : p \in new[i].points => i \in DOMAIN batches /\ new[i] = batches[i]
      BY <2>1, <2>4, <2>5
    <3>2. ASSUME WrittenOnce(batches, p) PROVE WrittenOnce(new, p)
      <4>1. PICK i \in DOMAIN batches :
              p \in batches[i].points /\ \A j \in DOMAIN batches : p \in batches[j].points => j = i
        BY <3>2 DEF WrittenOnce
      <4>2. i \in DOMAIN new /\ p \in new[i].points
        BY <2>3, <4>1
      <4> QED BY <3>1, <4>1, <4>2 DEF WrittenOnce
    <3>3. Unwritten(batches, p) => Unwritten(new, p)
      BY <3>1 DEF Unwritten
    <3> QED BY <3>2, <3>3
  <2>6. ASSUME NEW p \in records, Unwritten(batches, p)
        PROVE  WrittenOnce(new, p)
    <3>1. n + 1 \in DOMAIN new /\ p \in new[n + 1].points
      BY <2>1, <2>3
    <3>2. \A j \in DOMAIN new : p \in new[j].points => j = n + 1
      BY <2>4, <2>6 DEF Unwritten
    <3> QED BY <3>1, <3>2 DEF WrittenOnce
  <2> QED BY <2>1, <2>3, <2>4, <2>5, <2>6
<1> QED BY <1>1, <1>2

\* A page: the points that stayed and that the cursor passes are written, once.
LEMMA PageDump ==
  ASSUME DumpInv, FileInv, NextPage, ~Fail
  PROVE  DumpInv'
<1> DEFINE s   == Head(todo)
           pts == InShard(s)
           new == tmp'.batches
<1>1. /\ pc = "pages" /\ pc' = "pages" /\ UNCHANGED <<source, history, todo>>
      /\ todo # <<>> /\ ~stream.done
      /\ tmp' = IF Records = {} THEN tmp
                ELSE [tmp EXCEPT !.batches = Append(@, [shard |-> s, points |-> Records])]
      /\ stream' = Advance(stream, pts)
  BY DEF NextPage, Goto
<1>2. /\ Located /\ tmp.keys = keys /\ tmp.batches \in Batches /\ Said(tmp.batches)
      /\ Scrolled(tmp.batches) /\ IsFile(tmp)
  BY <1>1 DEF DumpInv, FileInv
<1>3. UNCHANGED <<keys, shardOf, stayed, seen>>
  BY <1>1 DEF source, history
<1>4. Located'
  <2>1. pc \in Active
    BY <1>1 DEF Active
  <2> QED BY <1>1, <1>2, <2>1, LocatedGoto
<1>5. /\ new = IF Records = {} THEN tmp.batches
               ELSE Append(tmp.batches, [shard |-> s, points |-> Records])
      /\ tmp'.keys = keys
  BY <1>1, <1>2 DEF IsFile, File
<1>6. s \in Of(keys) /\ s = todo[1] /\ s \in Shards /\ Len(todo) \in Nat /\ 1 \in 1..Len(todo)
  BY <1>1, <1>2 DEF Scrolled, Of, Located, Shards
\* What is in the shard of the stream.
<1>7. pts \in SUBSET Points /\ \A p \in Points : p \in pts <=> shardOf[p] = s
  <2>1. \A p \in Points : shardOf[p] \in Of(keys) \cup {Absent}
    BY <1>2 DEF Located
  <2>2. s # Absent /\ (s = NoKey => Of(keys) = {NoKey})
    BY <1>2, <1>6, DumpAssumption DEF Of, Located
  <2> QED BY <2>1, <2>2 DEF InShard, Existing
<1>8. Records = Page(stream, pts) \ Odd
  BY DEF Records
<1>9. /\ Page(stream, pts) \in SUBSET pts /\ stream' \in Streams
      /\ stream'.after >= stream.after /\ stream.after \in Nat /\ stream'.after \in Nat
      /\ \A p \in pts : stream.after < p /\ p <= stream'.after => p \in Page(stream, pts)
      /\ stream'.done => \A p \in pts : p <= stream'.after
      /\ stream'.fellBack \/ stream'.after = Origin
      /\ \A p \in Page(stream, pts) : stream.after < p /\ p <= stream'.after
  <2>1. stream \in Streams /\ (stream.fellBack \/ stream.after = Origin)
    BY <1>2 DEF Scrolled
  <2> HIDE DEF pts
  <2>2. /\ Page(stream, pts) \in SUBSET pts /\ stream' \in Streams
        /\ stream'.after >= stream.after
        /\ \A p \in pts : stream.after < p /\ p <= stream'.after => p \in Page(stream, pts)
        /\ stream'.done => \A p \in pts : p <= stream'.after
    BY <1>1, <1>7, <2>1, AdvanceCovers
  <2>3. /\ stream'.fellBack \/ stream'.after = Origin
        /\ \A p \in Page(stream, pts) : stream.after < p /\ p <= stream'.after
    BY <1>1, <1>7, <2>1, PageBeyond
  <2>4. stream.after \in Nat /\ stream'.after \in Nat
    BY <2>1, <2>2, PointsAreNaturals DEF Streams
  <2> QED BY <2>2, <2>3, <2>4
<1>10. /\ new \in Batches
       /\ \A i \in DOMAIN new : (i \in DOMAIN tmp.batches /\ new[i] = tmp.batches[i])
                                \/ (new[i].shard = s /\ new[i].points = Records)
       /\ \A p : p \notin Records =>
            /\ WrittenOnce(tmp.batches, p) => WrittenOnce(new, p)
            /\ Unwritten(tmp.batches, p) => Unwritten(new, p)
       /\ \A p \in Records : Unwritten(tmp.batches, p) => WrittenOnce(new, p)
  <2>1. Records \in SUBSET Points
    BY <1>7, <1>8, <1>9
  <2> DEFINE batches == tmp.batches
             records == Records
  <2>2. /\ batches \in Batches /\ s \in Shards /\ records \in SUBSET Points
        /\ new = Added(batches, s, records)
    BY <1>2, <1>5, <1>6, <2>1 DEF Added
  <2> HIDE DEF new, s, batches, records
  <2>3. /\ new \in Batches
        /\ \A i \in DOMAIN new : (i \in DOMAIN batches /\ new[i] = batches[i])
                                 \/ (new[i].shard = s /\ new[i].points = records)
        /\ \A p : p \notin records =>
             /\ WrittenOnce(batches, p) => WrittenOnce(new, p)
             /\ Unwritten(batches, p) => Unwritten(new, p)
        /\ \A p \in records : Unwritten(batches, p) => WrittenOnce(new, p)
    BY <2>2, PageBatches
  <2> QED BY <2>3 DEF batches, records
<1> HIDE DEF new, s, pts
<1>11. \A p \in Records : p \in Points /\ shardOf[p] = s /\ <<s, p>> \in seen
  <2>1. \A p \in Records : p \in Points /\ shardOf[p] = s
    BY <1>7, <1>8, <1>9
  <2>2. s # Absent /\ pc \in Active
    BY <1>1, <1>2, <1>6, DumpAssumption DEF Of, Located, Active
  <2> QED BY <1>2, <2>1, <2>2 DEF Located, Existing
<1>12. Said(new)
  BY <1>2, <1>6, <1>10, <1>11 DEF Said
<1>13. ASSUME NEW p \in stayed \ Odd
       PROVE  /\ (\A i \in 1..Len(todo) : todo[i] # shardOf[p]) => WrittenOnce(new, p)
              /\ \A i \in 2..Len(todo) : todo[i] = shardOf[p] => Unwritten(new, p)
              /\ s = shardOf[p] =>
                   \/ p <= stream'.after /\ WrittenOnce(new, p)
                   \/ p > stream'.after /\ Unwritten(new, p) /\ ~stream'.done
  <2>1. p \in Points /\ p \in Nat /\ p \notin Odd
    BY <1>2, PointsAreNaturals DEF Located, Existing
  <2>2. CASE shardOf[p] # s
    BY <1>2, <1>10, <1>11, <2>2 DEF Scrolled
  <2>3. CASE shardOf[p] = s
    <3>1. p \in pts
      BY <1>7, <2>1, <2>3
    <3>2. \A i \in 2..Len(todo) : todo[i] # shardOf[p]
      BY <1>2, <1>6, <2>3 DEF Scrolled
    <3>3. \/ p <= stream.after /\ WrittenOnce(tmp.batches, p)
          \/ p > stream.after /\ Unwritten(tmp.batches, p)
      BY <1>1, <1>2, <1>6, <2>3 DEF Scrolled
    <3>4. CASE p <= stream.after /\ WrittenOnce(tmp.batches, p)
      <4>1. p \notin Records
        BY <1>8, <1>9, <2>1, <3>4
      <4>2. p <= stream'.after
        BY <1>9, <2>1, <3>4
      <4> QED BY <1>6, <1>10, <2>3, <3>2, <3>4, <4>1, <4>2
    <3>5. CASE p > stream.after /\ Unwritten(tmp.batches, p)
      <4>1. CASE p <= stream'.after
        <5>1. p \in Records
          BY <1>8, <1>9, <2>1, <3>1, <3>5, <4>1
        <5> QED BY <1>6, <1>10, <2>3, <3>2, <3>5, <4>1, <5>1
      <4>2. CASE p > stream'.after
        <5>1. p \notin Records /\ ~stream'.done
          BY <1>8, <1>9, <2>1, <3>1, <4>2
        <5> QED BY <1>6, <1>10, <2>3, <3>2, <3>5, <4>2, <5>1
      <4> QED BY <1>9, <2>1, <4>1, <4>2
    <3> QED BY <3>3, <3>4, <3>5
  <2> QED BY <2>2, <2>3
<1>14. Scrolled(tmp.batches)'
  <2>1. \A p \in stayed \ Odd :
          /\ (\A i \in 1..Len(todo) : todo[i] # shardOf[p]) => WrittenOnce(new, p)
          /\ \A i \in 2..Len(todo) : todo[i] = shardOf[p] => Unwritten(new, p)
          /\ todo # <<>> /\ todo[1] = shardOf[p] =>
               \/ p <= stream'.after /\ WrittenOnce(new, p)
               \/ p > stream'.after /\ Unwritten(new, p) /\ ~stream'.done
    BY <1>6, <1>13
  <2>2. todo' = todo
    BY <1>1
  <2> QED BY <1>2, <1>3, <1>9, <2>1, <2>2 DEF Scrolled, new
<1>15. (tmp.keys = keys /\ tmp.batches \in Batches /\ Said(tmp.batches))'
  BY <1>3, <1>5, <1>10, <1>12 DEF Said, new
<1> QED BY <1>1, <1>4, <1>14, <1>15 DEF DumpInv, Closing

\* The next shard: a stream that is done has passed every point that stayed.
LEMMA ShardDump ==
  ASSUME DumpInv, NextShard
  PROVE  DumpInv'
<1>1. /\ pc = "pages" /\ pc' = "pages" /\ UNCHANGED <<source, history, tmp>>
      /\ todo # <<>> /\ stream.done
      /\ todo' = Tail(todo) /\ stream' = OpenAt(Origin)
  BY DEF NextShard, Goto
<1>2. /\ Located /\ tmp.keys = keys /\ tmp.batches \in Batches /\ Said(tmp.batches)
      /\ Scrolled(tmp.batches)
  BY <1>1 DEF DumpInv
<1>3. UNCHANGED <<keys, shardOf, stayed, seen>>
  BY <1>1 DEF source, history
<1>4. Located'
  <2>1. pc \in Active
    BY <1>1 DEF Active
  <2> QED BY <1>1, <1>2, <2>1, LocatedGoto
<1> DEFINE rest == todo'
           n    == Len(todo)
<1>5. /\ n \in Nat \ {0} /\ rest \in Seq(Of(keys)) /\ Len(rest) = n - 1
      /\ \A i \in 1..(n - 1) : rest[i] = todo[i + 1] /\ i + 1 \in 2..n
      /\ \A i \in 2..n : i - 1 \in 1..(n - 1) /\ rest[i - 1] = todo[i]
  <2>1. todo \in Seq(Of(keys)) /\ todo # <<>>
    BY <1>1, <1>2 DEF Scrolled
  <2>2. n \in Nat \ {0} /\ rest \in Seq(Of(keys)) /\ Len(rest) = n - 1
    BY <1>1, <2>1
  <2>3. \A i \in 1..(n - 1) : rest[i] = todo[i + 1]
    BY <1>1, <2>1, <2>2
  <2> HIDE DEF n, rest
  <2>4. \A i \in 1..(n - 1) : i + 1 \in 2..n
    BY <2>2
  <2>5. \A i \in 2..n : i - 1 \in 1..(n - 1) /\ i - 1 + 1 = i
    BY <2>2
  <2>6. \A i \in 2..n : rest[i - 1] = todo[i]
    <3> TAKE i \in 2..n
    <3>1. i - 1 \in 1..(n - 1) /\ i - 1 + 1 = i
      BY <2>5
    <3> QED BY <2>3, <3>1
  <2> QED BY <2>2, <2>3, <2>4, <2>5, <2>6
<1>6. \A i, j \in 1..n : todo[i] = todo[j] => i = j
  BY <1>2 DEF Scrolled
<1>7. ASSUME NEW p \in stayed \ Odd
      PROVE  /\ (\A i \in 1..n : todo[i] # shardOf[p]) => WrittenOnce(tmp.batches, p)
             /\ \A i \in 2..n : todo[i] = shardOf[p] => Unwritten(tmp.batches, p)
             /\ todo[1] = shardOf[p] => WrittenOnce(tmp.batches, p)
             /\ p > Origin
  <2>1. p \in Points
    BY <1>2 DEF Located, Existing
  <2> QED BY <1>1, <1>2, <2>1, PointsAreNaturals DEF Scrolled
<1> HIDE DEF rest, n
<1>8. \A i, j \in 1..(n - 1) : rest[i] = rest[j] => i = j
  <2> SUFFICES ASSUME NEW i \in 1..(n - 1), NEW j \in 1..(n - 1), rest[i] = rest[j] PROVE i = j
    OBVIOUS
  <2>1. i + 1 \in 1..n /\ j + 1 \in 1..n
    BY <1>5
  <2>2. i + 1 = j + 1
    BY <1>5, <1>6, <2>1
  <2> QED BY <1>5, <2>2
<1>9. ASSUME NEW p \in stayed \ Odd
      PROVE  /\ (\A i \in 1..(n - 1) : rest[i] # shardOf[p]) => WrittenOnce(tmp.batches, p)
             /\ \A i \in 1..(n - 1) : rest[i] = shardOf[p] => Unwritten(tmp.batches, p)
             /\ p > Origin
  <2>1. ASSUME \A i \in 1..(n - 1) : rest[i] # shardOf[p] PROVE WrittenOnce(tmp.batches, p)
    <3>1. \A i \in 2..n : todo[i] # shardOf[p]
      BY <1>5, <2>1
    <3>2. \A i \in 1..n : i = 1 \/ i \in 2..n
      BY <1>5
    <3> QED BY <1>7, <3>1, <3>2
  <2>2. ASSUME NEW i \in 1..(n - 1), rest[i] = shardOf[p] PROVE Unwritten(tmp.batches, p)
    BY <1>5, <1>7, <2>2
  <2> QED BY <1>7, <2>1, <2>2
<1>10. stream' \in Streams /\ stream'.after = Origin /\ ~stream'.done
  BY <1>1 DEF OpenAt, Streams, Cursors
<1>11. Scrolled(tmp.batches)'
  <2>1. tmp' = tmp /\ keys' = keys /\ shardOf' = shardOf /\ stayed' = stayed
    BY <1>1, <1>3
  <2>2. \A i \in 2..Len(rest) : i \in 1..(n - 1)
    BY <1>5
  <2>3. rest # <<>> => 1 \in 1..(n - 1)
    BY <1>5
  <2>4. \A p \in stayed \ Odd :
          /\ (\A i \in 1..Len(rest) : rest[i] # shardOf[p]) => WrittenOnce(tmp.batches, p)
          /\ \A i \in 2..Len(rest) : rest[i] = shardOf[p] => Unwritten(tmp.batches, p)
          /\ rest # <<>> /\ rest[1] = shardOf[p] =>
               \/ p <= stream'.after /\ WrittenOnce(tmp.batches, p)
               \/ p > stream'.after /\ Unwritten(tmp.batches, p) /\ ~stream'.done
    BY <1>5, <1>9, <1>10, <2>2, <2>3
  <2> QED BY <1>5, <1>8, <1>10, <2>1, <2>4 DEF Scrolled, rest
<1>12. (tmp.keys = keys /\ tmp.batches \in Batches /\ Said(tmp.batches))'
  BY <1>1, <1>2, <1>3 DEF Said
<1> QED BY <1>1, <1>4, <1>11, <1>12 DEF DumpInv, Closing

\* Nothing is left to scroll.
LEMMA FlushDump ==
  ASSUME DumpInv, FileInv, Flush, ~Fail
  PROVE  DumpInv'
<1>1. /\ pc = "pages" /\ pc' = "rename" /\ UNCHANGED <<source, history>> /\ todo = <<>>
      /\ tmp' = [tmp EXCEPT !.is = "whole"]
  BY DEF Flush, Goto
<1>2. /\ Located /\ tmp.keys = keys /\ tmp.batches \in Batches /\ Said(tmp.batches)
      /\ Scrolled(tmp.batches)
  BY <1>1 DEF DumpInv
<1>3. tmp'.keys = tmp.keys /\ tmp'.batches = tmp.batches
  BY <1>1 DEF FileInv, IsFile, File
<1>4. UNCHANGED <<keys, shardOf, stayed, seen>>
  BY <1>1 DEF source, history
<1>5. Located'
  <2>1. pc \in Active
    BY <1>1 DEF Active
  <2> QED BY <1>1, <1>2, <2>1, LocatedGoto
<1>6. \A p \in stayed \ Odd : WrittenOnce(tmp.batches, p)
  BY <1>1, <1>2 DEF Scrolled
<1>7. (tmp.keys = keys /\ tmp.batches \in Batches /\ Said(tmp.batches))'
      /\ (\A p \in stayed \ Odd : WrittenOnce(tmp.batches, p))'
  BY <1>2, <1>3, <1>4, <1>6 DEF Said, WrittenOnce
<1> QED BY <1>1, <1>5, <1>7 DEF DumpInv

\* A write takes its point from those that stayed, and is seen.
LEMMA WriteDump ==
  ASSUME DumpInv, Write
  PROVE  DumpInv'
<1>1. PICK q \in Points, t \in Of(keys) \cup {Absent} :
        /\ shardOf' = [shardOf EXCEPT ![q] = t]
        /\ stayed' = stayed \ {q}
        /\ seen' = IF t = Absent THEN seen ELSE seen \cup {<<t, q>>}
  BY DEF Write, Of
<1>2. pc \in Active /\ UNCHANGED <<keys, pc, todo, stream, tmp>>
  BY DEF Write
<1>3. Located /\ Located'
  <2>1. Located
    BY DEF DumpInv
  <2>2. shardOf' \in [Points -> Of(keys) \cup {Absent}]
        /\ shardOf'[q] = t /\ \A p \in Points : p # q => shardOf'[p] = shardOf[p]
    BY <1>1, <2>1 DEF Located
  <2>3. \A p \in Points : p \in Existing' <=> shardOf'[p] # Absent
    BY DEF Existing
  <2>4. stayed' \in SUBSET Existing'
    BY <1>1, <2>1, <2>2, <2>3 DEF Located, Existing
  <2>5. \A p \in Existing' : <<shardOf'[p], p>> \in seen'
    <3> TAKE p \in Existing'
    <3>1. p \in Points /\ shardOf'[p] # Absent
      BY DEF Existing
    <3>2. CASE p = q
      BY <1>1, <2>2, <3>1, <3>2
    <3>3. CASE p # q
      <4>1. shardOf'[p] = shardOf[p] /\ p \in Existing
        BY <2>2, <3>1, <3>3 DEF Existing
      <4> QED BY <1>1, <1>2, <2>1, <4>1 DEF Located
    <3> QED BY <3>2, <3>3
  <2> QED BY <1>2, <2>1, <2>2, <2>4, <2>5 DEF Located
<1>4. /\ \A p \in stayed' : p \in stayed /\ shardOf'[p] = shardOf[p]
      /\ seen \in SUBSET seen'
  BY <1>1, <1>3 DEF Located, Existing
<1>5. Said(tmp.batches) => Said(tmp.batches)'
  BY <1>2, <1>4 DEF Said
<1>6. Scrolled(tmp.batches) => Scrolled(tmp.batches)'
  <2> SUFFICES ASSUME Scrolled(tmp.batches) PROVE Scrolled(tmp.batches)'
    OBVIOUS
  <2>1. \A p \in stayed' \ Odd : p \in stayed \ Odd /\ shardOf'[p] = shardOf[p]
    BY <1>4
  <2>2. \A p : /\ WrittenOnce(tmp.batches, p)' <=> WrittenOnce(tmp.batches, p)
               /\ Unwritten(tmp.batches, p)' <=> Unwritten(tmp.batches, p)
    BY <1>2 DEF WrittenOnce, Unwritten
  <2> QED BY <1>2, <2>1, <2>2 DEF Scrolled
<1>7. (\A p \in stayed \ Odd : WrittenOnce(tmp.batches, p))
        => (\A p \in stayed \ Odd : WrittenOnce(tmp.batches, p))'
  BY <1>2, <1>4 DEF WrittenOnce
<1> QED BY <1>2, <1>3, <1>5, <1>6, <1>7 DEF DumpInv

\* Every step keeps it.
LEMMA DumpInvariant == Spec => []DumpInv
<1>1. Init => DumpInv
  BY DEF Init, DumpInv, Located, Of, Existing, Active, Closing
<1>2. DumpInv /\ FileInv /\ [Next]_vars => DumpInv'
  <2> SUFFICES ASSUME DumpInv, FileInv, [Next]_vars PROVE DumpInv'
    OBVIOUS
  <2>1. ASSUME Fail PROVE DumpInv'
    BY <2>1, LeaveDump DEF Fail, Goto, Active, Closing
  <2>2. CASE Start
    <3>1. Located'
      BY <2>2 DEF Start, DumpInv, Located, source, Existing
    <3> QED BY <2>2, <3>1 DEF Start, DumpInv, Closing
  <2>3. CASE Check
    BY <2>1, <2>3, LeaveDump DEF Check, Goto, Active, Closing
  <2>4. CASE CreateFile /\ ~Fail
    <3>1. pc = "create" /\ pc' = "list" /\ UNCHANGED <<source, history>> /\ tmp'.batches = <<>>
      BY <2>4 DEF CreateFile, Goto, File
    <3>2. Located'
      BY <3>1, LocatedGoto DEF DumpInv, Active
    <3> QED BY <3>1, <3>2 DEF DumpInv, Closing
  <2>5. CASE ListKeys /\ ~Fail
    BY <2>5, ListDump
  <2>6. CASE NextPage /\ ~Fail
    BY <2>6, PageDump
  <2>7. CASE NextShard
    BY <2>7, ShardDump
  <2>8. CASE Flush /\ ~Fail
    BY <2>8, FlushDump
  <2>9. CASE Rename
    <3>1. CASE pc' = "done"
      BY <2>9, <3>1, LeaveDump DEF Rename, Goto, Active, Closing
    <3>2. CASE pc' = "copy"
      BY <2>9, <3>2, CloseDump DEF Rename, Goto, Closing
    <3> QED BY <2>9, <3>1, <3>2 DEF Rename, Goto
  <2>10. CASE OpenCopy
    <3>1. CASE pc' = "failed"
      BY <2>10, <3>1, LeaveDump DEF OpenCopy, Goto, Active, Closing
    <3>2. CASE pc' = "fill"
      BY <2>10, <3>2, CloseDump DEF OpenCopy, Goto, Closing
    <3> QED BY <2>10, <3>1, <3>2 DEF OpenCopy, Goto
  <2>11. CASE FillCopy
    <3>1. CASE pc' = "failed"
      BY <2>11, <3>1, LeaveDump DEF FillCopy, Goto, Active, Closing
    <3>2. CASE pc' = "unlink"
      BY <2>11, <3>2, CloseDump DEF FillCopy, Goto, Closing
    <3> QED BY <2>11, <3>1, <3>2 DEF FillCopy, Goto
  <2>12. CASE Unlink
    BY <2>12, LeaveDump DEF Unlink, Goto, Active, Closing
  <2>13. CASE Kill
    BY <2>13, LeaveDump DEF Kill, Goto, Active, Closing
  <2>14. CASE Write
    BY <2>14, WriteDump
  <2>15. CASE UNCHANGED vars
    BY <2>15 DEF vars, source, history, DumpInv, Located, Existing, Said, Scrolled, WrittenOnce, Unwritten
  <2> QED
    BY <2>1, <2>2, <2>3, <2>4, <2>5, <2>6, <2>7, <2>8, <2>9, <2>10, <2>11, <2>12, <2>13, <2>14, <2>15
       DEF Next, Run, Over
<1> QED BY <1>1, <1>2, FileInvariant, PTL DEF Spec

\* DumpIsFaithful: the script that takes the place of the output has every point
\* that stayed in its shard in one batch of that shard, and says of no point what
\* was never true during the run, for every collection, page size and write.
THEOREM ScriptIsFaithful == Spec => []DumpIsFaithful
  BY DumpInvariant, InvFaithful, PTL

\* DoneIsFaithful: when a run reports success, the script at the output is
\* complete and faithful, by the rename or by the copy, whatever earlier runs
\* and failing removals left at the output and beside it.
THEOREM DoneScriptIsFaithful == Spec => []DoneIsFaithful
<1>1. Init => DoneIsFaithful
  BY DEF Init, DoneIsFaithful
<1>2. FileInv /\ DumpIsFaithful /\ DoneIsFaithful /\ [Next]_vars => DoneIsFaithful'
  <2> SUFFICES ASSUME FileInv, DumpIsFaithful, DoneIsFaithful, [Next]_vars, pc' = "done"
               PROVE  (out.is = "whole" /\ Faithful(out))'
    BY DEF DoneIsFaithful
  <2>1. ASSUME UNCHANGED <<source, history>>, out' = tmp, tmp.is = "whole", Faithful(tmp)
        PROVE  (out.is = "whole" /\ Faithful(out))'
    BY <2>1 DEF Faithful, source, history
  <2>2. CASE Rename
    BY <2>1, <2>2 DEF Rename, Goto, FileInv, DumpIsFaithful
  <2>3. CASE Unlink
    BY <2>1, <2>3 DEF Unlink, Goto, FileInv, DumpIsFaithful
  <2>4. CASE UNCHANGED vars
    BY <2>4 DEF vars, source, history, DoneIsFaithful, Faithful
  <2>5. Rename \/ Unlink \/ UNCHANGED vars
    BY DEF Next, Run, Start, Check, CreateFile, ListKeys, NextPage, NextShard, Flush,
       Fail, Goto, OpenCopy, FillCopy, Kill, Write, Active, Over
  <2> QED
    BY <2>2, <2>3, <2>4, <2>5
<1> QED
  BY <1>1, <1>2, FileInvariant, ScriptIsFaithful, PTL DEF Spec
=============================================================================
