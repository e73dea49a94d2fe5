---------------------------- MODULE ScrollPages ----------------------------
(***************************************************************************)
(* The sequential scroll stream that `qql dump` and `qql migrate` share    *)
(* (crates/qql-cli/src/dump/mod.rs, struct ScrollPages).                   *)
(*                                                                         *)
(* A scroll asks the backend for BatchSize + 1 points whose id is at or    *)
(* after the cursor: Qdrant's scroll offset is inclusive.  The typed hits  *)
(* of a response carry no next_page_offset, so the next cursor is always   *)
(* the last id of the page, and the point that the inclusive offset        *)
(* repeats is dropped from every page but the first of a stream.           *)
(***************************************************************************)
EXTENDS Integers, FiniteSets, FiniteSetsExt

CONSTANTS
  NumPoints,  \* point ids are 1..NumPoints, in the backend's scroll order
  BatchSize   \* --batch-size

ASSUME ScrollAssumption ==
  /\ NumPoints \in Nat
  /\ BatchSize \in Nat \ {0}

Points == 1..NumPoints

\* The cursor of a stream that starts at the beginning (`after: None`).
Origin == 0

Cursors == {Origin} \cup Points

Streams == [after : Cursors, fellBack : BOOLEAN, done : BOOLEAN]

\* ScrollPages::new(..).resume(after): a stored cursor is not a fallback.
OpenAt(after) == [after |-> after, fellBack |-> FALSE, done |-> FALSE]

-----------------------------------------------------------------------------
(* The backend's side of one scroll. *)

AtOrAfter(pts, after) == {p \in pts : p >= after}

\* The first n points of a set in id order.
Smallest(n, pts) == {p \in pts : Cardinality({q \in pts : q < p}) < n}

Probe(pts, after) == Smallest(BatchSize + 1, AtOrAfter(pts, after))

-----------------------------------------------------------------------------
(* ScrollPages::next over a collection that holds pts. *)

\* drop_resumed_point: the repeated cursor point, on a fallback cursor only.
Page(stream, pts) ==
  IF stream.fellBack THEN Probe(pts, stream.after) \ {stream.after}
                     ELSE Probe(pts, stream.after)

\* Mutant: the probe's extra point is forgotten when the page is judged full.
SawMoreThanProbe(stream, pts) == Cardinality(Probe(pts, stream.after)) > BatchSize + 1

\* A full probe page proves that more points follow.
SawMore(stream, pts) == Cardinality(Probe(pts, stream.after)) > BatchSize

\* Mutant: the cursor is taken past the last point of the page.
AdvancePastLast(stream, pts) ==
  IF Page(stream, pts) = {}
  THEN [stream EXCEPT !.done = TRUE]
  ELSE [after    |-> Max(Page(stream, pts)) + 1,
        fellBack |-> TRUE,
        done     |-> ~SawMore(stream, pts)]

\* Mutant: an empty page does not end the stream.
AdvanceOnEmpty(stream, pts) ==
  IF Page(stream, pts) = {}
  THEN stream
  ELSE [after    |-> Max(Page(stream, pts)),
        fellBack |-> TRUE,
        done     |-> ~SawMore(stream, pts)]

Advance(stream, pts) ==
  IF Page(stream, pts) = {}
  THEN [stream EXCEPT !.done = TRUE]
  ELSE [after    |-> Max(Page(stream, pts)),
        fellBack |-> TRUE,
        done     |-> ~SawMore(stream, pts)]
=============================================================================
