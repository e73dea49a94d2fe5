------------------------- MODULE ScrollPagesProofs -------------------------
(***************************************************************************)
(* What one step of the scroll stream covers, for every collection and     *)
(* every batch size: the lemmas that the proofs of Migrate rest on.        *)
(***************************************************************************)
EXTENDS ScrollPages, FiniteSetTheorems, WellFoundedInduction, TLAPS

USE DEF Origin

\* A non-empty set of natural numbers has a least element.
LEMMA LeastElement ==
  ASSUME NEW S \in SUBSET Nat, S # {}
  PROVE  \E x \in S : \A y \in S : x <= y
<1> DEFINE R == OpToRel(<, Nat)
<1>1. IsWellFoundedOn(R, Nat)
  BY NatLessThanWellFounded
<1>2. \A x, y \in Nat : y < x => <<y, x>> \in R
  BY DEF OpToRel
<1> HIDE DEF R
<1>3. PICK x \in S : \A y \in S : ~ (<<y, x>> \in R)
  BY <1>1, WFMin
<1>4. ASSUME NEW y \in S PROVE x <= y
  <2>1. x \in Nat /\ y \in Nat /\ ~ (<<y, x>> \in R)
    BY <1>3
  <2>2. ~(y < x)
    BY <1>2, <2>1
  <2> QED
    BY <2>1, <2>2
<1> QED
  BY <1>4

\* Point ids are natural numbers above the origin.
LEMMA PointsAreNaturals ==
  /\ Points \in SUBSET Nat /\ Cursors \in SUBSET Nat /\ Points \in SUBSET Cursors
  /\ \A p \in Points : p > Origin
BY ScrollAssumption DEF Points, Cursors

\* The last id of a page exists: Max of a non-empty set of points.
LEMMA MaxOfPoints ==
  ASSUME NEW S \in SUBSET Points, S # {}
  PROVE  /\ Max(S) \in S
         /\ \A y \in S : y <= Max(S)
<1> DEFINE T == {k \in Nat : NumPoints - k \in S}
<1>1. NumPoints \in Nat
  BY ScrollAssumption
<1>2. \A y \in S : y \in Nat /\ NumPoints - y \in Nat /\ NumPoints - (NumPoints - y) = y
  BY <1>1 DEF Points
<1>3. T # {} /\ T \in SUBSET Nat
  BY <1>2
<1>4. PICK k \in T : \A j \in T : k <= j
  BY <1>3, LeastElement
<1>5. \A y \in S : NumPoints - y \in T
  BY <1>2
<1> HIDE DEF T
<1>6. \A y \in S : NumPoints - k >= y
  BY <1>1, <1>2, <1>3, <1>4, <1>5
<1>7. NumPoints - k \in S
  BY <1>4 DEF T
<1>8. \E x \in S : \A y \in S : x >= y
  BY <1>6, <1>7
<1>9. Max(S) \in S /\ \A y \in S : Max(S) >= y
  BY <1>8 DEF Max
<1> QED
  BY <1>2, <1>9

\* Sets of points are finite, and their cardinality is a natural number.
LEMMA PointSetsFinite ==
  ASSUME NEW S \in SUBSET Points
  PROVE  IsFiniteSet(S) /\ Cardinality(S) \in Nat
<1>1. IsFiniteSet(Points)
  BY FS_Interval, ScrollAssumption DEF Points
<1> QED
  BY <1>1, FS_Subset, FS_CardinalityType

\* A limited scroll leaves no gap: it holds every point below one it holds.
LEMMA SmallestDownward ==
  ASSUME NEW S \in SUBSET Points, NEW n \in Nat,
         NEW p \in S, NEW m \in Smallest(n, S), p <= m
  PROVE  p \in Smallest(n, S)
<1> DEFINE Below(x) == {q \in S : q < x}
<1>1. m \in S /\ Cardinality(Below(m)) < n
  BY DEF Smallest
<1>2. Below(p) \in SUBSET Below(m)
  <2>1. \A q \in S : q \in Nat
    BY PointsAreNaturals
  <2>2. p \in Nat /\ m \in Nat
    BY <1>1, <2>1
  <2>3. \A q \in S : q < p => q < m
    BY <2>1, <2>2
  <2> QED
    BY <2>3
<1>3. Below(m) \in SUBSET Points
  OBVIOUS
<1>4. Cardinality(Below(p)) <= Cardinality(Below(m))
  BY <1>2, <1>3, PointSetsFinite, FS_Subset
<1>5. Cardinality(Below(p)) \in Nat /\ Cardinality(Below(m)) \in Nat
  BY <1>2, <1>3, PointSetsFinite
<1> HIDE DEF Below
<1>6. Cardinality(Below(p)) < n
  BY <1>1, <1>4, <1>5
<1> QED
  BY <1>6 DEF Smallest, Below

\* A scroll that comes back short of its limit holds everything there is.
LEMMA SmallestShort ==
  ASSUME NEW S \in SUBSET Points, NEW n \in Nat,
         Cardinality(Smallest(n + 1, S)) <= n
  PROVE  Smallest(n + 1, S) = S
<1> DEFINE Got == Smallest(n + 1, S)
           Missing == S \ Got
<1>1. Got \in SUBSET S
  BY DEF Smallest
<1> SUFFICES ASSUME Missing # {} PROVE FALSE
  BY <1>1
<1>2. Missing \in SUBSET Nat
  BY PointsAreNaturals
<1> HIDE DEF Got
<1>3. PICK m \in Missing : \A y \in Missing : m <= y
  BY <1>2, LeastElement
<1> DEFINE Below == {q \in S : q < m}
<1>4. Below \in SUBSET Got
  BY <1>2, <1>3, PointsAreNaturals
<1>5. Got \in SUBSET Points
  BY <1>1
<1>6. Cardinality(Below) <= Cardinality(Got) /\ Cardinality(Got) \in Nat
  BY <1>4, <1>5, PointSetsFinite, FS_Subset
<1>7. Cardinality(Below) \in Nat
  BY <1>4, <1>5, PointSetsFinite
<1> HIDE DEF Below
<1>8. Cardinality(Below) < n + 1
  BY <1>6, <1>7 DEF Got
<1>9. m \in Got
  BY <1>3, <1>8 DEF Got, Below, Smallest
<1> QED
  BY <1>3, <1>9

\* One step of the stream: the page leaves no gap between the old cursor and
\* the new one, and a stream that is done has nothing left behind its cursor.
THEOREM AdvanceCovers ==
  ASSUME NEW stream \in Streams, NEW pts \in SUBSET Points
  PROVE  LET page == Page(stream, pts)
             next == Advance(stream, pts)
         IN  /\ page \in SUBSET pts
             /\ next \in Streams
             /\ next.after >= stream.after
             /\ page = {} => next = [stream EXCEPT !.done = TRUE] /\ next.after = stream.after
             /\ \A p \in pts : stream.after < p /\ p <= next.after => p \in page
             /\ next.done => (stream.done \/ \A p \in pts : p <= next.after)
<1> DEFINE page == Page(stream, pts)
           next == Advance(stream, pts)
           A == AtOrAfter(pts, stream.after)
           P == Probe(pts, stream.after)
<1>1. A \in SUBSET Points /\ A \in SUBSET pts
  BY DEF AtOrAfter
<1>2. P \in SUBSET A
  BY DEF Probe, Smallest
<1>3. page \in SUBSET P /\ P \ {stream.after} \in SUBSET page
  BY DEF Page
<1>4. /\ stream.after \in Nat /\ stream.after \in Cursors
      /\ stream = [after |-> stream.after, fellBack |-> stream.fellBack, done |-> stream.done]
      /\ stream.done \in BOOLEAN /\ stream.fellBack \in BOOLEAN
  BY PointsAreNaturals DEF Streams
<1>5. \A p \in A : p \in Nat /\ p >= stream.after
  BY <1>1, PointsAreNaturals DEF AtOrAfter
<1>6. BatchSize \in Nat /\ BatchSize >= 1 /\ BatchSize + 1 \in Nat
  BY ScrollAssumption
<1>7. ~SawMore(stream, pts) => P = A
  <2>1. Cardinality(P) \in Nat
    BY <1>1, <1>2, PointSetsFinite
  <2>2. ~SawMore(stream, pts) => Cardinality(P) <= BatchSize
    BY <2>1, <1>6 DEF SawMore
  <2> QED
    BY <2>2, <1>1, <1>6, SmallestShort DEF Probe
<1>8. CASE page = {}
  <2>1. next = [stream EXCEPT !.done = TRUE]
    BY <1>8 DEF Advance
  <2>2. next \in Streams /\ next.after = stream.after
    BY <2>1, <1>4 DEF Streams
  <2>3. P \in SUBSET {stream.after}
    BY <1>3, <1>8
  <2>4. Cardinality(P) <= 1
    <3>1. IsFiniteSet({stream.after}) /\ Cardinality({stream.after}) = 1
      BY FS_Singleton
    <3> QED
      BY <2>3, <3>1, FS_Subset
  <2>5. ~SawMore(stream, pts)
    <3>1. Cardinality(P) \in Nat
      BY <1>1, <1>2, PointSetsFinite
    <3> QED
      BY <2>4, <3>1, <1>6 DEF SawMore
  <2>6. A \in SUBSET {stream.after}
    BY <2>3, <2>5, <1>7
  <2>7. \A p \in pts : p <= stream.after
    BY <2>6, <1>4, PointsAreNaturals DEF AtOrAfter
  <2> QED
    BY <1>1, <1>2, <1>3, <1>4, <1>8, <2>1, <2>2, <2>7, PointsAreNaturals
<1>9. CASE page # {}
  <2>1. next = [after |-> Max(page), fellBack |-> TRUE, done |-> ~SawMore(stream, pts)]
    BY <1>9 DEF Advance
  <2>2. page \in SUBSET Points
    BY <1>1, <1>2, <1>3
  <2>3. Max(page) \in page /\ \A y \in page : y <= Max(page)
    BY <1>9, <2>2, MaxOfPoints
  <2> HIDE DEF page
  <2>4. Max(page) \in Points /\ Max(page) >= stream.after /\ Max(page) \in P
    BY <1>2, <1>3, <1>5, <2>2, <2>3
  <2>5. next \in Streams /\ next.after = Max(page)
    BY <2>1, <2>4 DEF Streams, Cursors, SawMore
  <2>6. ASSUME NEW p \in pts, stream.after < p, p <= Max(page) PROVE p \in page
    <3>1. p \in A
      BY <2>6, <1>4, PointsAreNaturals DEF AtOrAfter
    <3>2. p \in P
      BY <3>1, <2>4, <2>6, <1>1, <1>6, SmallestDownward DEF Probe
    <3>3. p # stream.after
      BY <2>6, <1>4, PointsAreNaturals
    <3> QED
      BY <3>2, <3>3, <1>3
  <2>7. ASSUME next.done, NEW p \in pts PROVE p <= Max(page)
    <3>1. next.done = ~SawMore(stream, pts)
      BY <2>1
    <3>2. P = A
      BY <3>1, <2>7, <1>7
    <3>3. CASE p >= stream.after /\ p # stream.after
      BY <3>2, <3>3, <1>3, <2>3 DEF AtOrAfter
    <3>4. CASE p <= stream.after
      BY <3>4, <1>4, <2>4, PointsAreNaturals
    <3> QED
      BY <3>3, <3>4, <1>4, PointsAreNaturals
  <2> QED
    BY <1>1, <1>2, <1>3, <1>9, <2>4, <2>5, <2>6, <2>7 DEF page
<1> QED
  BY <1>8, <1>9
=============================================================================
