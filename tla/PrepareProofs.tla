---------------------------- MODULE PrepareProofs ----------------------------
(***************************************************************************)
(* Every point of an upsert gets the vectors of its own texts, keeps the   *)
(* user's, and sends them under names its collection has; every input of a *)
(* query is replaced by its own vector, made for a target that suits the   *)
(* collection: for every number of points, clauses and queries, every      *)
(* nesting, every schema and every answer of the embedder.                 *)
(***************************************************************************)
EXTENDS Prepare, FiniteSetTheorems, SequenceTheorems, WellFoundedInduction, TLAPS

-----------------------------------------------------------------------------
(* The answer of a batch. *)

\* Numbers below n, all different.
OneEach(ix, n) ==
  /\ ix \in [1..n -> 0..n]
  /\ \A i \in 1..n : ix[i] < n
  /\ \A i, j \in 1..n : i # j => ix[i] # ix[j]

\* Every number below n is one of them.
Hits(ix, n) == \A slot \in 1..n : \E i \in 1..n : ix[i] + 1 = slot

\* n distinct numbers below n are all of them.
LEMMA AllHit ==
  ASSUME NEW n \in Nat, NEW ix, OneEach(ix, n)
  PROVE  Hits(ix, n)
<1> USE DEF OneEach
<1> SUFFICES ASSUME NEW slot \in 1..n, \A i \in 1..n : ix[i] + 1 # slot PROVE FALSE
  BY DEF Hits
<1> DEFINE f == [i \in 1..n |-> ix[i] + 1]
           T == (1..n) \ {slot}
<1>1. f \in [1..n -> T]
  <2>1. ASSUME NEW i \in 1..n PROVE ix[i] + 1 \in T
    <3>1. ix[i] \in 0..n /\ ix[i] < n /\ ix[i] + 1 # slot
      OBVIOUS
    <3> QED BY <3>1
  <2> HIDE DEF T
  <2> QED BY <2>1
<1>2. IsFiniteSet(1..n) /\ Cardinality(1..n) = n
  BY FS_Interval
<1>3. IsFiniteSet(T) /\ Cardinality(T) = n - 1
  BY <1>2, FS_RemoveElement
<1> HIDE DEF T
<1>4. \E x, y \in 1..n : x # y /\ f[x] = f[y]
  <2>1. Cardinality(T) < Cardinality(1..n)
    BY <1>2, <1>3
  <2> HIDE DEF f
  <2> QED BY <1>1, <1>2, <1>3, <2>1, FS_PigeonHole
<1>5. QED
  BY <1>4

\* The vector of every input, in its slot.
Right(answer, modality, model, inputs) ==
  answer = <<[slot \in 1..Len(inputs) |-> Vec(modality, model, inputs[slot])]>>

\* An indexed answer that is taken has the vector of every input in its slot,
\* whatever order its items came in.
LEMMA ScatterRight ==
  ASSUME NEW modality, NEW model, NEW S, NEW inputs \in Seq(S),
         NEW n, n = Len(inputs),
         NEW k \in Nat, NEW ix \in [1..k -> 0..n],
         NEW answer, answer = Scatter(Indexed(modality, model, inputs, ix), n), answer # <<>>
  PROVE  Right(answer, modality, model, inputs)
<1> DEFINE items == Indexed(modality, model, inputs, ix)
<1>1. n \in Nat
  OBVIOUS
<1>2. DOMAIN items = 1..k /\ \A i \in 1..k : items[i] = Item(modality, model, inputs, ix[i])
  BY DEF Indexed
<1> HIDE DEF items
<1>3. Len(items) = k
  <2>1. \E m \in Nat : DOMAIN items = 1..m
    BY <1>2
  <2> QED BY <1>2, <2>1
<1>4. \A i \in 1..k : items[i].index = ix[i] /\ ix[i] \in Nat
  BY <1>1, <1>2 DEF Item
<1>5. ~(\/ Len(items) # n
        \/ \E i \in DOMAIN items : items[i].index >= n
        \/ \E i, j \in DOMAIN items : i # j /\ items[i].index = items[j].index)
  BY DEF Scatter, items
<1>6. k = n /\ \A i, j \in 1..k : i # j => ix[i] # ix[j]
  BY <1>2, <1>3, <1>4, <1>5
<1>7. \A i \in 1..k : ix[i] < n
  BY <1>1, <1>2, <1>4, <1>5
<1> DEFINE At(slot) == CHOOSE i \in DOMAIN items : items[i].index + 1 = slot
<1>8. Scatter(items, n) = <<[slot \in 1..n |-> items[At(slot)].vec]>>
  BY <1>5 DEF Scatter
<1>9. ASSUME NEW slot \in 1..n
      PROVE  items[At(slot)].vec = Vec(modality, model, inputs[slot])
  <2>1. \E i \in 1..n : ix[i] + 1 = slot
    <3>1. OneEach(ix, n)
      BY <1>6, <1>7 DEF OneEach
    <3>2. Hits(ix, n)
      BY <1>1, <3>1, AllHit
    <3> QED BY <3>2 DEF Hits
  <2>2. \E i \in DOMAIN items : items[i].index + 1 = slot
    BY <2>1, <1>2, <1>4, <1>6
  <2>3. At(slot) \in 1..k /\ items[At(slot)].index + 1 = slot
    BY <2>2, <1>2
  <2> HIDE DEF At
  <2>4. ix[At(slot)] + 1 = slot /\ ix[At(slot)] < Len(inputs)
    BY <2>3, <1>4, <1>7
  <2>5. items[At(slot)].vec = Vec(modality, model, inputs[ix[At(slot)] + 1])
    BY <2>3, <2>4, <1>2 DEF Item
  <2> QED BY <2>4, <2>5
<1> HIDE DEF At
<1> QED BY <1>8, <1>9 DEF items, Right

\* So has every answer the callers go on with, and nothing else.
LEMMA AnswerWhole ==
  ASSUME NEW h, NEW modality, NEW model, NEW S, NEW inputs \in Seq(S),
         Len(inputs) > 0,
         NEW answer \in Answers(h, modality, model, inputs), answer # <<>>
  PROVE  Right(answer, modality, model, inputs)
<1>1. CASE ~h
  <2>1. PICK vecs \in FromHost(modality, model, inputs) : answer = Counted(vecs, Len(inputs))
    BY <1>1 DEF Answers
  <2>2. PICK k \in (Len(inputs) - 1)..(Len(inputs) + 1) :
          vecs = [i \in 1..k |-> IF i <= Len(inputs) THEN Vec(modality, model, inputs[i])
                                                     ELSE <<modality, model, "nothing">>]
    BY <2>1 DEF FromHost
  <2>3. k \in Nat /\ Len(vecs) = k
    BY <2>2
  <2>4. k = Len(inputs) /\ answer = <<vecs>>
    BY <2>1, <2>3 DEF Counted
  <2>5. vecs = [i \in 1..Len(inputs) |-> Vec(modality, model, inputs[i])]
    BY <2>2, <2>4
  <2> QED BY <2>4, <2>5 DEF Right
<1>2. CASE h /\ modality # "sparse"
  <2>1. answer \in FromHttp(modality, model, inputs)
    BY <1>2 DEF Answers
  <2>2. PICK k \in (Len(inputs) - 1)..Len(inputs) :
          \E ix \in [1..k -> 0..Len(inputs)] :
            answer = Scatter(Indexed(modality, model, inputs, ix), Len(inputs))
    BY <2>1 DEF FromHttp
  <2>3. k \in Nat
    OBVIOUS
  <2>4. PICK ix \in [1..k -> 0..Len(inputs)] :
          answer = Scatter(Indexed(modality, model, inputs, ix), Len(inputs))
    BY <2>2
  <2> QED BY <2>3, <2>4, ScatterRight
<1>3. CASE h /\ modality = "sparse"
  <2>1. answer = <<[i \in DOMAIN inputs |-> Vec(modality, model, inputs[i])]>>
    BY <1>3 DEF Answers
  <2>2. DOMAIN inputs = 1..Len(inputs)
    OBVIOUS
  <2> QED BY <2>1, <2>2 DEF Right
<1> QED BY <1>1, <1>2, <1>3

\* The same, slot by slot.
LEMMA AnswerRight ==
  ASSUME NEW h, NEW modality, NEW model, NEW S, NEW inputs \in Seq(S),
         Len(inputs) > 0,
         NEW answer \in Answers(h, modality, model, inputs), answer # <<>>
  PROVE  \A i \in 1..Len(inputs) : answer[1][i] = Vec(modality, model, inputs[i])
BY AnswerWhole DEF Right

\* A finite set can be listed.
LEMMA ListedAll ==
  ASSUME NEW S, IsFiniteSet(S)
  PROVE  /\ Cardinality(S) \in Nat
         /\ Listed(S) \in [1..Cardinality(S) -> S]
         /\ \A x \in S : \E i \in DOMAIN Listed(S) : Listed(S)[i] = x
         /\ \A i, j \in DOMAIN Listed(S) : Listed(S)[i] = Listed(S)[j] => i = j
<1>1. Cardinality(S) \in Nat /\ ExistsBijection(1..Cardinality(S), S)
  BY FS_CardinalityType
<1>2. PICK s \in [1..Cardinality(S) -> S] :
        /\ \A x \in S : \E i \in DOMAIN s : s[i] = x
        /\ \A i, j \in DOMAIN s : s[i] = s[j] => i = j
  <2>1. PICK s : s \in Bijection(1..Cardinality(S), S)
    BY <1>1 DEF ExistsBijection
  <2>2. /\ s \in [1..Cardinality(S) -> S]
        /\ \A x \in S : \E i \in 1..Cardinality(S) : s[i] = x
        /\ \A i, j \in 1..Cardinality(S) : s[i] = s[j] => i = j
    BY <2>1 DEF Bijection, Injection, Surjection, IsInjective
  <2> QED BY <2>2
<1> QED BY <1>1, <1>2 DEF Listed

-----------------------------------------------------------------------------
(* The inductive invariant. *)

\* A point has these fields and no others.
IsPoint(p) == p = [fields |-> p.fields, vecs |-> p.vecs, unnamed |-> p.unnamed]

\* The statement keeps its points and their fields.
Kept ==
  /\ stmt \in Upserts
  /\ at \in Nat \ {0}
  /\ up = [points |-> up.points, legs |-> up.legs]
  /\ DOMAIN up.points = 1..Len(stmt.points)
  /\ up.points = [i \in 1..Len(stmt.points) |-> up.points[i]]
  /\ \A i \in 1..Len(stmt.points) :
       IsPoint(up.points[i]) /\ up.points[i].fields = stmt.points[i].fields
  /\ \E m \in Nat : DOMAIN up.legs = 1..m

\* A bare leg is alone, and until it is embedded the points without vectors are
\* the ones that came without.
Bare ==
  \/ \A k \in DOMAIN up.legs : up.legs[k].bare = FALSE
  \/ /\ up.legs = <<BareLeg>>
     /\ at = 1 => \A i \in 1..Len(stmt.points) :
                   NoVectors(up.points[i]) <=> NoVectors(stmt.points[i])

\* A statement still to be configured is as it came.
Configuring == pc = "configure" => up = stmt /\ at = 1 /\ srv \in Optional(Schemas)

\* What every step of an upsert keeps.
IInv == Kept /\ Bare /\ Configuring /\ EachPointItsOwn

\* What is known of a statement.
LEMMA Statement ==
  ASSUME NEW u \in Upserts
  PROVE  /\ u = [points |-> u.points, legs |-> u.legs]
         /\ u.points \in Seq(Point) /\ u.legs \in Seq(Clause)
         /\ \A i \in 1..Len(u.points) : IsPoint(u.points[i])
         /\ \A k \in DOMAIN u.legs : u.legs[k].bare = FALSE
         /\ DOMAIN u.points = 1..Len(u.points)
         /\ u.points = [i \in 1..Len(u.points) |-> u.points[i]]
         /\ \E m \in Nat : DOMAIN u.legs = 1..m
         /\ \A legs : [u EXCEPT !.legs = legs] = [points |-> u.points, legs |-> legs]
<1>1. u \in [points : Seq(Point), legs : Seq(Clause)]
  BY UpsertAssumption
<1>2. u = [points |-> u.points, legs |-> u.legs] /\ u.points \in Seq(Point) /\ u.legs \in Seq(Clause)
  BY <1>1
<1>3. ASSUME NEW p \in Point PROVE IsPoint(p)
  <2> DEFINE A == [Fields -> Texts]
             B == UNION {[N -> {<<"user">>}] : N \in SUBSET VectorNames}
  <2>1. p \in [fields : A, vecs : B, unnamed : BOOLEAN]
    BY DEF Point
  <2> HIDE DEF A, B
  <2> QED BY <2>1 DEF IsPoint
<1>4. ASSUME NEW c \in Clause PROVE c.bare = FALSE
  BY DEF Clause
<1>5. \A i \in 1..Len(u.points) : u.points[i] \in Point
  BY <1>2
<1>6. \A k \in DOMAIN u.legs : u.legs[k] \in Clause
  BY <1>2
<1>7. /\ DOMAIN u.points = 1..Len(u.points)
      /\ u.points = [i \in 1..Len(u.points) |-> u.points[i]]
      /\ \E m \in Nat : DOMAIN u.legs = 1..m
  BY <1>2
<1>8. ASSUME NEW legs PROVE [u EXCEPT !.legs = legs] = [points |-> u.points, legs |-> legs]
  BY <1>2
<1>9. (\A i \in 1..Len(u.points) : IsPoint(u.points[i]))
      /\ \A k \in DOMAIN u.legs : u.legs[k].bare = FALSE
  BY <1>3, <1>4, <1>5, <1>6
<1> QED BY <1>2, <1>7, <1>8, <1>9

\* A leg with targets: of a clause, or inferred for one.
AnyLeg ==
  [kind : Kinds, vec : Optional(VectorNames \union {Unnamed}), field : Optional(Fields),
   model : Nat, directive : BOOLEAN, bare : {FALSE}, sizes : BOOLEAN]

\* The legs inferred from a schema are legs of a clause each.
LEMMA Inferred ==
  ASSUME NEW names \in [dense : SUBSET (VectorNames \union {Unnamed}), sparse : SUBSET VectorNames,
                        multi : SUBSET VectorNames]
  PROVE  InferLegs(names) \in Seq(AnyLeg)
<1> DEFINE V == VectorNames \union {Unnamed}
<1>1. IsFiniteSet(V)
  BY UpsertAssumption, FS_AddElement
<1>2. ASSUME NEW kind \in Kinds, NEW S \in SUBSET V PROVE UsingLegs(kind, S) \in Seq(AnyLeg)
  <2>1. IsFiniteSet(S)
    BY <1>1, FS_Subset
  <2>2. Cardinality(S) \in Nat /\ Listed(S) \in [1..Cardinality(S) -> S]
    BY <2>1, ListedAll
  <2>3. ASSUME NEW i \in 1..Cardinality(S) PROVE UsingLeg(kind, Listed(S)[i]) \in AnyLeg
    BY <2>2 DEF UsingLeg, AnyLeg, Optional
  <2>4. UsingLegs(kind, S) = [i \in 1..Cardinality(S) |-> UsingLeg(kind, Listed(S)[i])]
    BY <2>2 DEF UsingLegs
  <2>5. UsingLegs(kind, S) \in [1..Cardinality(S) -> AnyLeg]
    BY <2>3, <2>4
  <2> QED BY <2>2, <2>5
<1>3. names.dense \ names.multi \in SUBSET V /\ names.sparse \in SUBSET V /\ names.multi \in SUBSET V
  OBVIOUS
<1>4. "dense" \in Kinds /\ "sparse" \in Kinds /\ "multi" \in Kinds
  BY DEF Kinds
<1>5. /\ UsingLegs("dense", names.dense \ names.multi) \in Seq(AnyLeg)
      /\ UsingLegs("sparse", names.sparse) \in Seq(AnyLeg)
      /\ UsingLegs("multi", names.multi) \in Seq(AnyLeg)
  BY <1>2, <1>3, <1>4
<1>6. \/ InferLegs(names) = <<>>
      \/ InferLegs(names) = UsingLegs("dense", names.dense \ names.multi)
                             \o UsingLegs("sparse", names.sparse) \o UsingLegs("multi", names.multi)
  BY DEF InferLegs
<1>7. \A a, b, c \in Seq(AnyLeg) : a \o b \o c \in Seq(AnyLeg)
  OBVIOUS
<1>8. <<>> \in Seq(AnyLeg)
  OBVIOUS
<1> DEFINE a == UsingLegs("dense", names.dense \ names.multi)
           b == UsingLegs("sparse", names.sparse)
           c == UsingLegs("multi", names.multi)
<1>9. a \o b \o c \in Seq(AnyLeg)
  <2>1. a \in Seq(AnyLeg) /\ b \in Seq(AnyLeg) /\ c \in Seq(AnyLeg)
    BY <1>5
  <2> HIDE DEF a, b, c
  <2> QED BY <2>1, <1>7
<1> QED BY <1>6, <1>8, <1>9

\* The legs of a statement, or those its schema gives.
LEMMA LegsOf ==
  ASSUME NEW u \in Upserts, NEW s \in Schemas
  PROVE  LET legs == IF u.legs # <<>> THEN u.legs ELSE InferLegs(SchemaTargets(s))
         IN  legs \in Seq(Clause) \/ legs \in Seq(AnyLeg)
<1> DEFINE names == SchemaTargets(s)
<1>1. names \in [dense : SUBSET (VectorNames \union {Unnamed}), sparse : SUBSET VectorNames,
                 multi : SUBSET VectorNames]
  <2>1. s \in [dense : SUBSET VectorNames, sparse : SUBSET VectorNames, multi : SUBSET VectorNames]
    BY UpsertAssumption
  <2> QED BY <2>1 DEF SchemaTargets
<1>2. InferLegs(names) \in Seq(AnyLeg)
  <2> HIDE DEF names
  <2> QED BY <1>1, Inferred
<1> QED BY <1>2, Statement

\* The invariant holds of every statement as it comes.
LEMMA InitOwn == UpsertInit => IInv
<1> SUFFICES ASSUME UpsertInit PROVE IInv
  OBVIOUS
<1>1. stmt \in Upserts /\ up = stmt /\ at = 1 /\ srv \in Optional(Schemas)
  BY DEF UpsertInit, Optional
<1>2. Kept
  <2>2. /\ DOMAIN stmt.points = 1..Len(stmt.points)
        /\ stmt.points = [i \in 1..Len(stmt.points) |-> stmt.points[i]]
        /\ \E m \in Nat : DOMAIN stmt.legs = 1..m
    BY <1>1, Statement
  <2>3. /\ stmt = [points |-> stmt.points, legs |-> stmt.legs]
        /\ \A i \in 1..Len(stmt.points) : IsPoint(stmt.points[i])
    BY <1>1, Statement
  <2>4. at \in Nat \ {0}
    BY <1>1
  <2>5. up = stmt
    BY <1>1
  <2> QED BY <1>1, <2>2, <2>3, <2>4, <2>5, Zenon DEF Kept
<1>3. Bare
  BY <1>1, Statement DEF Bare
<1> QED BY <1>1, <1>2, <1>3 DEF IInv, Configuring, EachPointItsOwn

\* A step of the configuration: the legs are set, no point loses its fields.
LEMMA ConfigureOwn ==
  ASSUME IInv, pc = "configure", pc' # "configure", UNCHANGED <<stmt, at>>,
         NEW points, NEW legs, up' = [points |-> points, legs |-> legs],
         points = [i \in 1..Len(stmt.points) |-> points[i]],
         \A i \in 1..Len(stmt.points) :
           IsPoint(points[i]) /\ points[i].fields = stmt.points[i].fields,
         \E m \in Nat : DOMAIN legs = 1..m,
         \/ \A k \in DOMAIN legs : legs[k].bare = FALSE
         \/ legs = <<BareLeg>> /\ \A i \in 1..Len(stmt.points) :
                                  NoVectors(points[i]) <=> NoVectors(stmt.points[i])
  PROVE  IInv'
<1>1. at = 1 /\ stmt \in Upserts
  BY DEF IInv, Configuring, Kept
<1>2. up'.points = points /\ up'.legs = legs
  OBVIOUS
<1>3. DOMAIN points = 1..Len(stmt.points)
  OBVIOUS
<1>4. Kept'
  <2>1. (at \in Nat \ {0})'
    BY <1>1
  <2>2. (up = [points |-> up.points, legs |-> up.legs])'
    BY <1>2
  <2> QED BY <1>1, <1>2, <1>3, <2>1, <2>2, Zenon DEF Kept
<1>5. Bare'
  BY <1>2 DEF Bare
<1>6. Configuring'
  BY DEF Configuring
<1>7. EachPointItsOwn'
  BY <1>1 DEF EachPointItsOwn
<1> QED BY <1>4, <1>5, <1>6, <1>7 DEF IInv

\* A step that leaves the statement alone.
LEMMA SameOwn ==
  ASSUME IInv, UNCHANGED <<stmt, up, at>>,
         pc' = "configure" => pc = "configure" /\ srv' \in Optional(Schemas)
  PROVE  IInv'
<1>1. Kept' /\ Bare' /\ EachPointItsOwn'
  BY DEF IInv, Kept, Bare, EachPointItsOwn
<1>2. Configuring'
  BY DEF IInv, Configuring
<1> QED BY <1>1, <1>2 DEF IInv

\* The mapping of unnamed vectors keeps fields, and gives vectors only to points
\* that had one.
LEMMA Mapped ==
  ASSUME NEW u \in Upserts, NEW names, NEW points, points = MapUnnamed(u.points, names)
  PROVE  /\ points = [i \in 1..Len(u.points) |-> points[i]]
         /\ \A i \in 1..Len(u.points) :
              /\ IsPoint(points[i]) /\ points[i].fields = u.points[i].fields
              /\ NoVectors(points[i]) <=> NoVectors(u.points[i])
<1>1. /\ u.points = [i \in 1..Len(u.points) |-> u.points[i]]
      /\ DOMAIN u.points = 1..Len(u.points)
      /\ \A i \in 1..Len(u.points) : IsPoint(u.points[i])
  BY Statement
<1>2. CASE Cardinality(names.dense) # 1 \/ Unnamed \in names.dense
  BY <1>1, <1>2 DEF MapUnnamed
<1>3. CASE ~(Cardinality(names.dense) # 1 \/ Unnamed \in names.dense)
  <2> DEFINE given == [n \in names.dense |-> <<"user">>]
  <2>1. points = [i \in 1..Len(u.points) |->
                    IF u.points[i].unnamed
                    THEN [u.points[i] EXCEPT !.unnamed = FALSE, !.vecs = given]
                    ELSE u.points[i]]
    BY <1>1, <1>3 DEF MapUnnamed
  <2>2. given # <<>>
    <3>1. names.dense # {}
      BY <1>3, FS_EmptySet
    <3>2. DOMAIN given # {}
      BY <3>1
    <3>3. DOMAIN <<>> = {}
      OBVIOUS
    <3> QED BY <3>2, <3>3
  <2> HIDE DEF given
  <2>3. ASSUME NEW i \in 1..Len(u.points)
        PROVE  /\ IsPoint(points[i]) /\ points[i].fields = u.points[i].fields
               /\ NoVectors(points[i]) <=> NoVectors(u.points[i])
    <3>1. u.points[i] = [fields |-> u.points[i].fields, vecs |-> u.points[i].vecs,
                         unnamed |-> u.points[i].unnamed]
      BY <1>1 DEF IsPoint
    <3>2. CASE u.points[i].unnamed
      <4>1. points[i] = [fields |-> u.points[i].fields, vecs |-> given, unnamed |-> FALSE]
        BY <2>1, <3>1, <3>2
      <4> QED BY <2>2, <3>2, <4>1 DEF IsPoint, NoVectors
    <3>3. CASE ~u.points[i].unnamed
      <4>1. points[i] = u.points[i]
        BY <2>1, <3>3
      <4> QED BY <4>1, <1>1
    <3> QED BY <3>2, <3>3
  <2> QED BY <2>1, <2>3
<1> QED BY <1>2, <1>3

\* Mapping unnamed vectors, or leaving them, keeps it.
LEMMA ConfigureBareOwn == IInv /\ ConfigureBare => IInv'
<1> SUFFICES ASSUME IInv, ConfigureBare PROVE IInv'
  OBVIOUS
<1>1. stmt \in Upserts /\ pc = "configure" /\ pc' # "configure" /\ UNCHANGED <<stmt, at>>
  BY DEF IInv, Kept, ConfigureBare
<1>2. DOMAIN <<BareLeg>> = 1..1
  OBVIOUS
<1>3. CASE up' = [points |-> MapUnnamed(stmt.points, SchemaTargets(srv[1])), legs |-> <<BareLeg>>]
  <2> DEFINE points == MapUnnamed(stmt.points, SchemaTargets(srv[1]))
  <2>1. /\ points = [i \in 1..Len(stmt.points) |-> points[i]]
        /\ \A i \in 1..Len(stmt.points) :
             /\ IsPoint(points[i]) /\ points[i].fields = stmt.points[i].fields
             /\ NoVectors(points[i]) <=> NoVectors(stmt.points[i])
    BY <1>1, Mapped
  <2>2. up' = [points |-> points, legs |-> <<BareLeg>>]
    BY <1>3
  <2> HIDE DEF points
  <2> QED BY <1>1, <1>2, <2>1, <2>2, ConfigureOwn
<1>4. CASE up' = [stmt EXCEPT !.legs = <<BareLeg>>]
  <2>1. up' = [points |-> stmt.points, legs |-> <<BareLeg>>]
    BY <1>1, <1>4, Statement
  <2>2. /\ stmt.points = [i \in 1..Len(stmt.points) |-> stmt.points[i]]
        /\ \A i \in 1..Len(stmt.points) : IsPoint(stmt.points[i])
    BY <1>1, Statement
  <2> QED BY <1>1, <1>2, <2>1, <2>2, ConfigureOwn
<1> QED BY <1>3, <1>4 DEF ConfigureBare

\* Legs that are not bare keep the statement as it is.
LEMMA ConfigureClauses ==
  ASSUME IInv, pc = "configure", pc' # "configure", UNCHANGED <<stmt, at>>,
         NEW legs, up' = [stmt EXCEPT !.legs = legs],
         \E m \in Nat : DOMAIN legs = 1..m,
         \A k \in DOMAIN legs : legs[k].bare = FALSE
  PROVE  IInv'
<1>1. stmt \in Upserts
  BY DEF IInv, Kept
<1>2. up' = [points |-> stmt.points, legs |-> legs]
  BY <1>1, Statement
<1>3. /\ stmt.points = [i \in 1..Len(stmt.points) |-> stmt.points[i]]
      /\ \A i \in 1..Len(stmt.points) : IsPoint(stmt.points[i])
  BY <1>1, Statement
<1> QED BY <1>2, <1>3, ConfigureOwn

\* So do the two default targets of a missing collection,
LEMMA ConfigureMissingOwn == IInv /\ ConfigureMissing => IInv'
<1> SUFFICES ASSUME IInv, ConfigureMissing PROVE IInv'
  OBVIOUS
<1>1. stmt \in Upserts /\ pc = "configure" /\ pc' # "configure" /\ UNCHANGED <<stmt, at>>
  BY DEF IInv, Kept, ConfigureMissing
<1>2. CASE stmt.legs # <<>>
  <2>1. up' = stmt
    BY <1>2 DEF ConfigureMissing
  <2>2. up' = [stmt EXCEPT !.legs = stmt.legs]
    BY <1>1, <2>1, Statement
  <2> QED BY <1>1, <2>2, Statement, ConfigureClauses
<1>3. CASE stmt.legs = <<>>
  <2> DEFINE legs == <<UsingLeg("dense", "dense"), [UsingLeg("sparse", "sparse") EXCEPT !.sizes = FALSE]>>
  <2>1. up' = [stmt EXCEPT !.legs = legs]
    BY <1>3 DEF ConfigureMissing
  <2>2. DOMAIN legs = 1..2 /\ legs[1].bare = FALSE /\ legs[2].bare = FALSE
    BY DEF UsingLeg
  <2> HIDE DEF legs
  <2>3. (\E m \in Nat : DOMAIN legs = 1..m) /\ \A k \in DOMAIN legs : legs[k].bare = FALSE
    BY <2>2
  <2> QED BY <1>1, <2>1, <2>3, ConfigureClauses
<1> QED BY <1>2, <1>3

\* and the targets taken from a schema.
LEMMA ConfigureKnownOwn == IInv /\ ConfigureKnown => IInv'
<1> SUFFICES ASSUME IInv, ConfigureKnown PROVE IInv'
  OBVIOUS
<1> DEFINE names == SchemaTargets(srv[1])
           legs  == IF stmt.legs # <<>> THEN stmt.legs ELSE InferLegs(names)
<1>1. stmt \in Upserts /\ pc = "configure" /\ srv[1] \in Schemas
  BY DEF IInv, Kept, ConfigureKnown, Configuring, Optional
<1>3. legs \in Seq(Clause) \/ legs \in Seq(AnyLeg)
  BY <1>1, LegsOf
<1>4. \/ Fails
      \/ /\ up' = [stmt EXCEPT !.legs = ResolveLegs(legs, names)]
         /\ pc' = "embed" /\ UNCHANGED <<stmt, at>>
  BY DEF ConfigureKnown
<1> HIDE DEF legs, names
<1>5. (\E m \in Nat : DOMAIN legs = 1..m)
      /\ \A k \in DOMAIN legs : legs[k] \in Clause \/ legs[k] \in AnyLeg
  BY <1>3
<1>6. ASSUME NEW x, x \in Clause \/ x \in AnyLeg, NEW v
      PROVE  x.bare = FALSE /\ [x EXCEPT !.vec = v].bare = FALSE
  BY <1>6 DEF Clause, AnyLeg
<1> DEFINE resolved == ResolveLegs(legs, names)
<1>7. DOMAIN resolved = DOMAIN legs /\ \A k \in DOMAIN resolved : resolved[k].bare = FALSE
  BY <1>5, <1>6 DEF ResolveLegs
<1> HIDE DEF resolved
<1>8. CASE Fails
  BY <1>8, SameOwn DEF Fails
<1>9. CASE up' = [stmt EXCEPT !.legs = resolved] /\ pc' = "embed" /\ UNCHANGED <<stmt, at>>
  BY <1>1, <1>5, <1>7, <1>9, ConfigureClauses
<1> QED BY <1>4, <1>8, <1>9 DEF resolved

-----------------------------------------------------------------------------
(* A leg is embedded. *)

\* A vector is put under its name, and nothing else changes.
LEMMA PutKeeps ==
  ASSUME NEW p, IsPoint(p), NEW name, NEW vec, NEW q, q = Put(p, name, vec)
  PROVE  /\ IsPoint(q) /\ q.fields = p.fields
         /\ name \in DOMAIN q.vecs /\ q.vecs[name] = vec
         /\ \A n \in DOMAIN p.vecs : n \in DOMAIN q.vecs /\ (n # name => q.vecs[n] = p.vecs[n])
<1> DEFINE new == [n \in DOMAIN p.vecs \union {name} |-> IF n = name THEN vec ELSE p.vecs[n]]
<1>1. q = [fields |-> p.fields, vecs |-> new, unnamed |-> p.unnamed]
  <2>1. q = [p EXCEPT !.vecs = new]
    BY DEF Put
  <2>2. p = [fields |-> p.fields, vecs |-> p.vecs, unnamed |-> p.unnamed]
    BY DEF IsPoint
  <2> HIDE DEF new
  <2> QED BY <2>1, <2>2
<1>2. q.vecs = new /\ q.fields = p.fields /\ IsPoint(q)
  <2> HIDE DEF new
  <2> QED BY <1>1 DEF IsPoint
<1> QED BY <1>2

\* The text of a point that a leg embeds, in a statement.
Reads(i) == Source(stmt.points[i], Current) # NoText

\* The point with the vector of the current leg.
Written(i) ==
  Put(up.points[i], TargetName(Current),
      Vec(Current.kind, Current.model, Source(stmt.points[i], Current)))

\* A leg that is embedded writes its vectors to the points that have a text for
\* it, none of which has an unnamed vector, and leaves the other points alone.
LEMMA EmbedLegWrites ==
  ASSUME IInv, EmbedLeg, ~Fails
  PROVE  /\ pc = "embed" /\ at \in DOMAIN up.legs /\ at \in Nat \ {0} /\ ~Duplicate
         /\ up' = [points |-> up'.points, legs |-> up'.legs]
         /\ up'.legs = up.legs /\ at' = at + 1
         /\ UNCHANGED <<pc, stmt, srv, seen, made>>
         /\ up'.points = [i \in 1..Len(stmt.points) |-> up'.points[i]]
         /\ \A i \in 1..Len(stmt.points) :
              /\ Source(up.points[i], Current) = Source(stmt.points[i], Current)
              /\ up'.points[i] = IF Reads(i) THEN Written(i) ELSE up.points[i]
              /\ Reads(i) => TargetName(Current) # Unnamed /\ ~up.points[i].unnamed
<1> DEFINE N     == Len(stmt.points)
           leg   == Current
           T     == {i \in DOMAIN up.points : Embeds(i, leg)}
           list  == Listed(T)
           texts == [k \in DOMAIN list |-> Source(up.points[list[k]], leg)]
<1>1. /\ ~Duplicate
      /\ pc = "embed" /\ at <= Len(up.legs)
      /\ \E answer \in (IF list = <<>> THEN {<<<<>>>>} ELSE Answers(http, leg.kind, leg.model, texts)) :
           /\ answer # <<>>
           /\ list # <<>> => TargetName(leg) # Unnamed
           /\ \A k \in DOMAIN list : ~up.points[list[k]].unnamed
           /\ up' = [up EXCEPT !.points = Fill(up.points, list, answer[1], TargetName(leg))]
           /\ at' = at + 1
           /\ UNCHANGED <<pc, stmt, srv, seen, made>>
  BY DEF EmbedLeg
<1>2. PICK answer \in (IF list = <<>> THEN {<<<<>>>>} ELSE Answers(http, leg.kind, leg.model, texts)) :
           /\ answer # <<>>
           /\ list # <<>> => TargetName(leg) # Unnamed
           /\ \A k \in DOMAIN list : ~up.points[list[k]].unnamed
           /\ up' = [up EXCEPT !.points = Fill(up.points, list, answer[1], TargetName(leg))]
           /\ at' = at + 1
           /\ UNCHANGED <<pc, stmt, srv, seen, made>>
  BY <1>1
<1>3. /\ stmt \in Upserts /\ at \in Nat \ {0}
      /\ up = [points |-> up.points, legs |-> up.legs]
      /\ DOMAIN up.points = 1..N
      /\ \A i \in 1..N : IsPoint(up.points[i]) /\ up.points[i].fields = stmt.points[i].fields
      /\ N \in Nat
  <2>1. stmt \in Upserts
    BY DEF IInv, Kept
  <2>2. N \in Nat
    BY <2>1, Statement
  <2> QED BY <2>2 DEF IInv, Kept
<1>4. at \in DOMAIN up.legs
  <2>1. PICK m \in Nat : DOMAIN up.legs = 1..m
    BY DEF IInv, Kept
  <2>2. Len(up.legs) = m
    BY <2>1
  <2> QED BY <1>1, <1>3, <2>1, <2>2
\* The text a point has now is the one it came with.
<1>5. ASSUME NEW i \in 1..N
      PROVE  Source(up.points[i], leg) = Source(stmt.points[i], leg)
  <2>1. CASE leg.bare = FALSE
    BY <2>1, <1>3 DEF Source
  <2>2. CASE leg.bare # FALSE
    <3>1. up.legs = <<BareLeg>>
      BY <1>4, <2>2 DEF IInv, Bare, Current
    <3>2. at = 1
      BY <1>3, <1>4, <3>1
    <3>3. NoVectors(up.points[i]) <=> NoVectors(stmt.points[i])
      BY <1>4, <2>2, <3>2 DEF IInv, Bare, Current
    <3> QED BY <1>3, <3>3 DEF Source
  <2> QED BY <2>1, <2>2
<1>6. IsFiniteSet(T)
  <2>1. IsFiniteSet(1..N)
    BY <1>3, FS_Interval
  <2>2. T \in SUBSET (1..N)
    BY <1>3
  <2> HIDE DEF T, N
  <2> QED BY <2>1, <2>2, FS_Subset
<1>7. /\ Cardinality(T) \in Nat
      /\ list \in [1..Cardinality(T) -> T]
      /\ \A x \in T : \E k \in DOMAIN list : list[k] = x
      /\ \A j, k \in DOMAIN list : list[j] = list[k] => j = k
  <2> HIDE DEF T
  <2> QED BY <1>6, ListedAll
<1>8. ASSUME NEW k \in DOMAIN list
      PROVE  answer[1][k] = Vec(leg.kind, leg.model, Source(up.points[list[k]], leg))
  <2> DEFINE S == {Source(up.points[i], leg) : i \in T}
  <2>1. texts = [j \in 1..Cardinality(T) |-> Source(up.points[list[j]], leg)]
    BY <1>7
  <2>2. \A j \in 1..Cardinality(T) : Source(up.points[list[j]], leg) \in S
    <3> HIDE DEF T, list
    <3> QED BY <1>7
  <2>3. texts \in Seq(S) /\ Len(texts) = Cardinality(T)
    <3>1. texts \in [1..Cardinality(T) -> S]
      BY <2>1, <2>2
    <3> HIDE DEF texts, S, T
    <3> QED BY <1>7, <3>1
  <2>4. k \in 1..Cardinality(T)
    BY <1>7
  <2>5. list # <<>>
    BY <2>4
  <2>6. answer \in Answers(http, leg.kind, leg.model, texts) /\ answer # <<>>
    BY <1>2, <2>5
  <2>7. \A i \in 1..Len(texts) : answer[1][i] = Vec(leg.kind, leg.model, texts[i])
    <3>1. Len(texts) > 0
      BY <1>7, <2>3, <2>4
    <3> HIDE DEF texts, S, leg, list, T
    <3> QED BY <2>3, <2>6, <3>1, AnswerRight
  <2> QED BY <2>1, <2>3, <2>4, <2>7
<1> DEFINE name == TargetName(leg)
           own(i) == Vec(leg.kind, leg.model, Source(stmt.points[i], leg))
\* What a step of it writes.
<1>9. ASSUME NEW i \in 1..N
      PROVE  Fill(up.points, list, answer[1], name)[i]
               = IF Source(stmt.points[i], leg) # NoText
                 THEN Put(up.points[i], name, own(i)) ELSE up.points[i]
  <2>1. i \in T <=> Source(stmt.points[i], leg) # NoText
    BY <1>3, <1>5 DEF Embeds
  <2>2. CASE i \in T
    <3>1. \E k \in DOMAIN list : list[k] = i
      BY <1>7, <2>2
    <3> DEFINE j == CHOOSE k \in DOMAIN list : list[k] = i
    <3>2. j \in DOMAIN list /\ list[j] = i
      BY <3>1
    <3>3. Fill(up.points, list, answer[1], name)[i] = Put(up.points[i], name, answer[1][j])
      BY <1>3, <3>1 DEF Fill
    <3> HIDE DEF j
    <3>4. answer[1][j] = own(i)
      BY <1>5, <1>8, <3>2
    <3> QED BY <2>1, <2>2, <3>3, <3>4
  <2>3. CASE i \notin T
    <3>1. ~\E k \in DOMAIN list : list[k] = i
      BY <1>7, <2>3
    <3>2. Fill(up.points, list, answer[1], name)[i] = up.points[i]
      BY <1>3, <3>1 DEF Fill
    <3> QED BY <2>1, <2>3, <3>2
  <2> QED BY <2>2, <2>3
<1>10. /\ up' = [points |-> up'.points, legs |-> up'.legs]
       /\ up'.points = Fill(up.points, list, answer[1], name)
       /\ up'.legs = up.legs /\ at' = at + 1 /\ stmt' = stmt /\ pc' = "embed"
  <2> DEFINE new == Fill(up.points, list, answer[1], name)
  <2>1. up' = [up EXCEPT !.points = new]
    BY <1>2
  <2> HIDE DEF new
  <2>2. up' = [points |-> new, legs |-> up.legs]
    BY <1>3, <2>1
  <2> QED BY <1>1, <1>2, <2>2 DEF new
<1>11. up'.points = [i \in 1..N |-> up'.points[i]]
  <2>1. DOMAIN Fill(up.points, list, answer[1], name) = 1..N
        /\ Fill(up.points, list, answer[1], name)
             = [i \in 1..N |-> Fill(up.points, list, answer[1], name)[i]]
    BY <1>3 DEF Fill
  <2> QED BY <1>10, <2>1
<1> HIDE DEF T, list, texts
<1>12. ASSUME NEW i \in 1..N
       PROVE  up'.points[i] = IF Source(stmt.points[i], leg) # NoText
                              THEN Put(up.points[i], name, own(i)) ELSE up.points[i]
  BY <1>9, <1>10
<1>13. ASSUME NEW i \in 1..N, Reads(i)
       PROVE  name # Unnamed /\ ~up.points[i].unnamed
  <2>1. i \in T
    BY <1>3, <1>5, <1>13 DEF Embeds, T, Reads
  <2>2. PICK k \in DOMAIN list : list[k] = i
    BY <1>7, <2>1
  <2>3. list # <<>>
    BY <2>2
  <2> QED BY <1>2, <2>2, <2>3
<1>14. ASSUME NEW i \in 1..N
       PROVE  up'.points[i] = IF Reads(i) THEN Written(i) ELSE up.points[i]
  BY <1>12 DEF Reads, Written, own, name, leg
<1> QED BY <1>1, <1>2, <1>3, <1>4, <1>5, <1>10, <1>11, <1>13, <1>14

\* A leg puts its own vectors, and takes none from an earlier leg.
LEMMA EmbedLegOwn == IInv /\ EmbedLeg => IInv'
<1> SUFFICES ASSUME IInv, EmbedLeg PROVE IInv'
  OBVIOUS
<1> DEFINE N      == Len(stmt.points)
           leg    == Current
           name   == TargetName(leg)
           own(i) == Vec(leg.kind, leg.model, Source(stmt.points[i], leg))
<1>1. CASE Fails
  BY <1>1, SameOwn DEF Fails
<1>2. CASE ~Fails
  <2>1. ~Duplicate
    BY <1>2, EmbedLegWrites
  <2>3. /\ stmt \in Upserts /\ at \in Nat \ {0}
        /\ DOMAIN up.points = 1..N
        /\ \A i \in 1..N : IsPoint(up.points[i]) /\ up.points[i].fields = stmt.points[i].fields
        /\ N \in Nat
    <3>1. stmt \in Upserts
      BY DEF IInv, Kept
    <3>2. N \in Nat
      BY <3>1, Statement
    <3> QED BY <3>2 DEF IInv, Kept
  <2>10. /\ up' = [points |-> up'.points, legs |-> up'.legs]
         /\ up'.legs = up.legs /\ at' = at + 1 /\ stmt' = stmt /\ pc' = "embed"
    BY <1>2, EmbedLegWrites
  <2>11. up'.points = [i \in 1..N |-> up'.points[i]]
    BY <1>2, EmbedLegWrites
  <2>12. ASSUME NEW i \in 1..N
         PROVE  up'.points[i] = IF Source(stmt.points[i], leg) # NoText
                                THEN Put(up.points[i], name, own(i)) ELSE up.points[i]
    BY <1>2, EmbedLegWrites DEF Reads, Written
  <2> HIDE DEF own, name, leg
  <2>13. ASSUME NEW i \in 1..N
         PROVE  IsPoint(up'.points[i]) /\ up'.points[i].fields = stmt.points[i].fields
    <3>1. CASE Source(stmt.points[i], leg) # NoText
      <4>1. up'.points[i] = Put(up.points[i], name, own(i))
        BY <2>12, <3>1
      <4> QED BY <2>3, <4>1, PutKeeps
    <3>2. CASE Source(stmt.points[i], leg) = NoText
      BY <2>3, <2>12, <3>2
    <3> QED BY <3>1, <3>2
  <2>14. Kept'
    <3>1. (at \in Nat \ {0})'
      BY <2>3, <2>10
    <3>2. (\E m \in Nat : DOMAIN up.legs = 1..m)'
      BY <2>10 DEF IInv, Kept
    <3>3. (DOMAIN up.points = 1..Len(stmt.points))'
      BY <2>10, <2>11
    <3>4. (up.points = [i \in 1..Len(stmt.points) |-> up.points[i]])'
      BY <2>10, <2>11
    <3>5. (\A i \in 1..Len(stmt.points) :
             IsPoint(up.points[i]) /\ up.points[i].fields = stmt.points[i].fields)'
      BY <2>10, <2>13
    <3>6. (stmt \in Upserts)' /\ (up = [points |-> up.points, legs |-> up.legs])'
      BY <2>3, <2>10
    <3> QED BY <3>1, <3>2, <3>3, <3>4, <3>5, <3>6, Zenon DEF Kept
  <2>15. Bare'
    <3>1. at' # 1
      BY <2>3, <2>10
    <3> QED BY <2>10, <3>1 DEF IInv, Bare
  <2>16. Configuring'
    BY <2>10 DEF Configuring
  <2>17. EachPointItsOwn'
    <3>1. SUFFICES ASSUME NEW k \in 1..at, NEW i \in 1..N,
                          Source(stmt.points[i], up.legs[k]) # NoText
                   PROVE  /\ TargetName(up.legs[k]) \in DOMAIN up'.points[i].vecs
                          /\ up'.points[i].vecs[TargetName(up.legs[k])]
                               = Vec(up.legs[k].kind, up.legs[k].model, Source(stmt.points[i], up.legs[k]))
      <4>1. at' - 1 = at
        BY <2>3, <2>10
      <4>2. DOMAIN up'.points = 1..N
        BY <2>11
      <4> QED BY <2>10, <4>1, <4>2 DEF EachPointItsOwn
    <3>2. CASE k = at
      <4>1. up.legs[k] = leg
        BY <3>2 DEF leg, Current
      <4>2. up'.points[i] = Put(up.points[i], name, own(i))
        BY <2>12, <3>1, <4>1
      <4>3. IsPoint(up.points[i])
        BY <2>3
      <4>4. name \in DOMAIN up'.points[i].vecs /\ up'.points[i].vecs[name] = own(i)
        BY <4>2, <4>3, PutKeeps
      <4> QED BY <4>1, <4>4 DEF name, own
    <3>3. CASE k # at
      <4>1. k \in 1..(at - 1)
        BY <2>3, <3>3
      <4>2. TargetName(up.legs[k]) # name
        BY <2>1, <4>1 DEF Duplicate, name, leg
      <4>3. /\ TargetName(up.legs[k]) \in DOMAIN up.points[i].vecs
            /\ up.points[i].vecs[TargetName(up.legs[k])]
                 = Vec(up.legs[k].kind, up.legs[k].model, Source(stmt.points[i], up.legs[k]))
        BY <2>3, <3>1, <4>1 DEF IInv, EachPointItsOwn
      <4>4. IsPoint(up.points[i])
        BY <2>3
      <4>5. /\ TargetName(up.legs[k]) \in DOMAIN up'.points[i].vecs
            /\ up'.points[i].vecs[TargetName(up.legs[k])] = up.points[i].vecs[TargetName(up.legs[k])]
        <5>1. CASE up'.points[i] = up.points[i]
          BY <4>3, <5>1
        <5>2. CASE up'.points[i] = Put(up.points[i], name, own(i))
          BY <4>2, <4>3, <4>4, <5>2, PutKeeps
        <5> QED BY <2>12, <5>1, <5>2
      <4> QED BY <4>3, <4>5
    <3> QED BY <3>2, <3>3
  <2> QED BY <2>14, <2>15, <2>16, <2>17 DEF IInv
<1> QED BY <1>1, <1>2

-----------------------------------------------------------------------------
(* A step that is not one of the configuration leaves it alone. *)

\* Every step keeps it.
LEMMA StepOwn == IInv /\ [UpsertStep]_vars => IInv'
<1> SUFFICES ASSUME IInv, [UpsertStep]_vars PROVE IInv'
  OBVIOUS
<1>1. CASE ConfigureBare
  BY <1>1, ConfigureBareOwn
<1>2. CASE ConfigureMissing
  BY <1>2, ConfigureMissingOwn
<1>3. CASE ConfigureKnown
  BY <1>3, ConfigureKnownOwn
<1>4. CASE EmbedLeg
  BY <1>4, EmbedLegOwn
<1>5. CASE Ensure
  BY <1>5, SameOwn DEF Ensure
<1>6. CASE Create
  BY <1>6, SameOwn DEF Create, Fails
<1>7. CASE Send
  BY <1>7, SameOwn DEF Send
<1>8. CASE Fail
  BY <1>8, SameOwn DEF Fail, Fails
<1>9. CASE Change
  <2>1. UNCHANGED <<pc, stmt, up, at>> /\ srv' \in Optional(Schemas)
    BY <1>9 DEF Change, Optional
  <2> QED BY <2>1, SameOwn
<1>10. CASE UNCHANGED vars
  <2>1. UNCHANGED <<pc, stmt, up, at, srv>>
    BY <1>10 DEF vars
  <2>2. pc = "configure" => srv \in Optional(Schemas)
    BY DEF IInv, Configuring
  <2> QED BY <2>1, <2>2, SameOwn
<1> QED BY <1>1, <1>2, <1>3, <1>4, <1>5, <1>6, <1>7, <1>8, <1>9, <1>10 DEF UpsertStep

\* Every vector an upsert sends under the name of a leg was made from the text of
\* its own point (EachPointItsOwn), for all statements, schemas and answers.
THEOREM OwnVectors == UpsertSpec => []EachPointItsOwn
<1>1. UpsertInit => IInv
  BY InitOwn
<1>2. IInv /\ [UpsertStep]_vars => IInv'
  BY StepOwn
<1>3. IInv => EachPointItsOwn
  BY DEF IInv
<1> QED BY <1>1, <1>2, <1>3, PTL DEF UpsertSpec

-----------------------------------------------------------------------------
(* The vectors of the user, and those of the legs. *)

\* The vectors of a statement as it comes are the user's, named or unnamed.
LEMMA AsItComes ==
  ASSUME NEW u \in Upserts, NEW i \in 1..Len(u.points)
  PROVE  /\ \A n \in DOMAIN u.points[i].vecs : u.points[i].vecs[n] = <<"user">>
         /\ u.points[i].unnamed => DOMAIN u.points[i].vecs = {}
<1>1. u.points[i] \in Point
  <2>1. u.points \in Seq(Point)
    BY Statement
  <2> QED BY <2>1
<1>2. /\ u.points[i].vecs \in UNION {[N -> {<<"user">>}] : N \in SUBSET VectorNames}
      /\ u.points[i].unnamed => u.points[i].vecs = <<>>
  BY <1>1 DEF Point
<1>3. PICK N \in SUBSET VectorNames : u.points[i].vecs \in [N -> {<<"user">>}]
  BY <1>2
<1> QED BY <1>2, <1>3

\* A point with only an unnamed vector, now under the names of the collection.
Renamed(was, now) ==
  /\ was.unnamed /\ DOMAIN now.vecs # {}
  /\ \A n \in DOMAIN now.vecs : now.vecs[n] = <<"user">>

\* The mapping changes no other point.
LEMMA MappedVectors ==
  ASSUME NEW u \in Upserts, NEW names, NEW points, points = MapUnnamed(u.points, names),
         NEW i \in 1..Len(u.points)
  PROVE  points[i] = u.points[i] \/ Renamed(u.points[i], points[i])
<1> DEFINE given == [n \in names.dense |-> <<"user">>]
<1>1. DOMAIN u.points = 1..Len(u.points) /\ IsPoint(u.points[i])
  BY Statement
<1>2. CASE Cardinality(names.dense) # 1 \/ Unnamed \in names.dense
  BY <1>2 DEF MapUnnamed
<1>3. CASE ~(Cardinality(names.dense) # 1 \/ Unnamed \in names.dense)
  <2>1. points[i] = IF u.points[i].unnamed
                    THEN [u.points[i] EXCEPT !.unnamed = FALSE, !.vecs = given]
                    ELSE u.points[i]
    BY <1>1, <1>3 DEF MapUnnamed
  <2>2. DOMAIN given # {} /\ \A n \in DOMAIN given : given[n] = <<"user">>
    BY <1>3, FS_EmptySet
  <2> HIDE DEF given
  <2>3. CASE u.points[i].unnamed
    <3>1. u.points[i] = [fields |-> u.points[i].fields, vecs |-> u.points[i].vecs,
                         unnamed |-> u.points[i].unnamed]
      BY <1>1 DEF IsPoint
    <3>2. points[i].vecs = given
      BY <2>1, <2>3, <3>1
    <3> QED BY <2>2, <2>3, <3>2 DEF Renamed
  <2> QED BY <2>1, <2>3
<1> QED BY <1>2, <1>3

\* Every vector is the user's or of a leg, and the user's are kept or replaced by
\* a leg of their name. A renamed point is one the bare leg passes over.
Carried(was, now, legs, next) ==
  /\ \A n \in DOMAIN was.vecs :
       /\ n \in DOMAIN now.vecs
       /\ now.vecs[n] = was.vecs[n] \/ \E k \in 1..(next - 1) : TargetName(legs[k]) = n
  /\ \/ ~was.unnamed \/ now.unnamed
     \/ legs = <<BareLeg>> /\ \E n \in DOMAIN now.vecs : now.vecs[n] = <<"user">>
  /\ \A n \in DOMAIN now.vecs :
       \/ now.vecs[n] = <<"user">>
       \/ /\ n # Unnamed
          /\ \E k \in DOMAIN legs :
               TargetName(legs[k]) = n /\ now.vecs[n][1] = legs[k].kind

\* Each vector of a point is the user's or a leg's, under the name of that leg.
PointVectors(i) == Carried(stmt.points[i], up.points[i], up.legs, at)

\* So do those of every point.
Vectors == \A i \in 1..Len(stmt.points) : PointVectors(i)

\* A statement that comes or is configured has only vectors of the user.
LEMMA ConfiguredVectors ==
  ASSUME NEW u \in Upserts, NEW i \in 1..Len(u.points), NEW now, NEW legs, NEW next,
         \/ now = u.points[i]
         \/ legs = <<BareLeg>> /\ Renamed(u.points[i], now)
  PROVE  Carried(u.points[i], now, legs, next)
<1>1. /\ \A n \in DOMAIN u.points[i].vecs : u.points[i].vecs[n] = <<"user">>
      /\ u.points[i].unnamed => DOMAIN u.points[i].vecs = {}
  BY AsItComes
<1>2. CASE now = u.points[i]
  BY <1>1, <1>2 DEF Carried
<1>3. CASE legs = <<BareLeg>> /\ Renamed(u.points[i], now)
  BY <1>1, <1>3 DEF Carried, Renamed
<1> QED BY <1>2, <1>3

\* What a leg writes in a point.
LEMMA PutOnly ==
  ASSUME NEW p, IsPoint(p), NEW name, NEW vec, NEW q, q = Put(p, name, vec)
  PROVE  DOMAIN q.vecs = DOMAIN p.vecs \union {name} /\ q.unnamed = p.unnamed
<1> DEFINE new == [n \in DOMAIN p.vecs \union {name} |-> IF n = name THEN vec ELSE p.vecs[n]]
<1>1. q = [fields |-> p.fields, vecs |-> new, unnamed |-> p.unnamed]
  <2>1. q = [p EXCEPT !.vecs = new]
    BY DEF Put
  <2>2. p = [fields |-> p.fields, vecs |-> p.vecs, unnamed |-> p.unnamed]
    BY DEF IsPoint
  <2> HIDE DEF new
  <2> QED BY <2>1, <2>2
<1>2. q.vecs = new /\ q.unnamed = p.unnamed
  <2> HIDE DEF new
  <2> QED BY <1>1
<1> QED BY <1>2

\* A leg takes a vector of the user's only for its own name.
LEMMA EmbedLegVectors ==
  ASSUME IInv, Vectors, EmbedLeg, ~Fails
  PROVE  Vectors'
<1>1. /\ at \in DOMAIN up.legs /\ at \in Nat \ {0}
      /\ up'.legs = up.legs /\ at' = at + 1 /\ stmt' = stmt
      /\ \A i \in 1..Len(stmt.points) :
              /\ Source(up.points[i], Current) = Source(stmt.points[i], Current)
              /\ up'.points[i] = IF Reads(i) THEN Written(i) ELSE up.points[i]
              /\ Reads(i) => TargetName(Current) # Unnamed /\ ~up.points[i].unnamed
  BY EmbedLegWrites
<1>2. SUFFICES ASSUME NEW i \in 1..Len(stmt.points) PROVE PointVectors(i)'
  BY <1>1 DEF Vectors
<1>3. PointVectors(i) /\ IsPoint(up.points[i])
  BY DEF Vectors, IInv, Kept
<1>4. \A k \in 1..(at - 1) : k \in 1..at
  BY <1>1
<1>5. CASE ~Reads(i)
  <2>1. up'.points[i] = up.points[i]
    BY <1>1, <1>5
  <2>2. at' - 1 = at
    BY <1>1
  <2>3. ASSUME NEW n \in DOMAIN stmt.points[i].vecs
        PROVE  /\ n \in DOMAIN up.points[i].vecs
               /\ \/ up.points[i].vecs[n] = stmt.points[i].vecs[n]
                  \/ \E k \in 1..at : TargetName(up.legs[k]) = n
    BY <1>3, <1>4 DEF PointVectors, Carried
  <2>4. /\ \/ ~stmt.points[i].unnamed \/ up.points[i].unnamed
           \/ /\ up.legs = <<BareLeg>>
              /\ \E n \in DOMAIN up.points[i].vecs : up.points[i].vecs[n] = <<"user">>
        /\ \A n \in DOMAIN up.points[i].vecs :
              \/ up.points[i].vecs[n] = <<"user">>
              \/ /\ n # Unnamed
                 /\ \E k \in DOMAIN up.legs :
                      /\ TargetName(up.legs[k]) = n
                      /\ up.points[i].vecs[n][1] = up.legs[k].kind
    BY <1>3 DEF PointVectors, Carried
  <2>5. up'.legs = up.legs /\ stmt' = stmt
    BY <1>1
  <2>6. \/ ~stmt.points[i].unnamed \/ up'.points[i].unnamed
        \/ /\ up'.legs = <<BareLeg>>
           /\ \E n \in DOMAIN up'.points[i].vecs : up'.points[i].vecs[n] = <<"user">>
    BY <2>1, <2>4, <2>5, Zenon
  <2> QED BY <2>1, <2>2, <2>3, <2>4, <2>5, <2>6 DEF PointVectors, Carried
<1>6. CASE Reads(i)
  <2> DEFINE name == TargetName(Current)
             vec  == Vec(Current.kind, Current.model, Source(stmt.points[i], Current))
             p    == up.points[i]
  <2>1. up'.points[i] = Put(p, name, vec) /\ name # Unnamed /\ ~p.unnamed
    BY <1>1, <1>6 DEF Written
  <2>2. /\ DOMAIN up'.points[i].vecs = DOMAIN p.vecs \union {name}
        /\ up'.points[i].unnamed = p.unnamed /\ up'.points[i].vecs[name] = vec
        /\ \A n \in DOMAIN p.vecs : n # name => up'.points[i].vecs[n] = p.vecs[n]
    BY <1>3, <2>1, PutKeeps, PutOnly
  <2>3. vec[1] = up.legs[at].kind /\ name = TargetName(up.legs[at])
    BY DEF Vec, Current
  <2>4. at' - 1 = at /\ at \in 1..at
    BY <1>1
  \* A renamed point has vectors, and the bare leg reads no text of it.
  <2>5. ~stmt.points[i].unnamed
    <3> SUFFICES ASSUME stmt.points[i].unnamed PROVE FALSE
      OBVIOUS
    <3>1. up.legs = <<BareLeg>> /\ DOMAIN p.vecs # {}
      BY <1>3, <2>1 DEF PointVectors, Carried
    <3>2. Current.bare = TRUE
      <4>1. at = 1
        BY <1>1, <3>1
      <4>2. Current = BareLeg
        BY <3>1, <4>1 DEF Current
      <4> QED BY <4>2 DEF BareLeg, UsingLeg
    <3>3. p.vecs # <<>>
      BY <3>1
    <3>4. Source(p, Current) = NoText
      BY <3>2, <3>3 DEF Source, NoVectors
    <3> QED BY <1>1, <1>6, <3>4 DEF Reads
  <2> HIDE DEF name, vec, p
  <2>6. ASSUME NEW n \in DOMAIN stmt.points[i].vecs
        PROVE  /\ n \in DOMAIN up'.points[i].vecs
               /\ \/ up'.points[i].vecs[n] = stmt.points[i].vecs[n]
                  \/ \E k \in 1..at : TargetName(up.legs[k]) = n
    BY <1>3, <1>4, <2>2, <2>3, <2>4 DEF PointVectors, Carried, p
  <2>7. ASSUME NEW n \in DOMAIN up'.points[i].vecs, up'.points[i].vecs[n] # <<"user">>
        PROVE  /\ n # Unnamed
               /\ \E k \in DOMAIN up.legs :
                    TargetName(up.legs[k]) = n /\ up'.points[i].vecs[n][1] = up.legs[k].kind
    <3>1. CASE n = name
      BY <1>1, <2>1, <2>2, <2>3, <3>1
    <3>2. CASE n # name
      BY <1>3, <2>2, <2>7, <3>2 DEF PointVectors, Carried, p
    <3> QED BY <3>1, <3>2
  <2> QED BY <1>1, <2>4, <2>5, <2>6, <2>7 DEF PointVectors, Carried
<1> QED BY <1>5, <1>6

\* The configuration renames unnamed vectors, if it changes a point at all.
LEMMA ConfigureVectors ==
  ASSUME IInv, ConfigureBare \/ ConfigureMissing \/ ConfigureKnown, ~Fails
  PROVE  Vectors'
<1> DEFINE points == MapUnnamed(stmt.points, SchemaTargets(srv[1]))
<1>1. stmt \in Upserts
  BY DEF IInv, Kept
<1>2. \A legs : [stmt EXCEPT !.legs = legs] = [points |-> stmt.points, legs |-> legs]
  BY <1>1, Statement
<1>3. /\ stmt' = stmt
      /\ \/ up'.points = stmt.points
         \/ up'.points = points /\ up'.legs = <<BareLeg>>
  <2>1. CASE ConfigureBare
    <3> HIDE DEF points
    <3>1. stmt' = stmt /\ (\/ up' = [points |-> points, legs |-> <<BareLeg>>]
                           \/ up' = [stmt EXCEPT !.legs = <<BareLeg>>])
      BY <2>1 DEF ConfigureBare, points
    <3>2. [stmt EXCEPT !.legs = <<BareLeg>>] = [points |-> stmt.points, legs |-> <<BareLeg>>]
      BY <1>2
    <3> QED BY <3>1, <3>2
  <2>2. CASE ConfigureMissing
    <3>1. stmt' = stmt /\ (up' = stmt \/ \E legs : up' = [stmt EXCEPT !.legs = legs])
      BY <2>2 DEF ConfigureMissing
    <3> QED BY <1>2, <3>1
  <2>3. CASE ConfigureKnown
    <3>1. stmt' = stmt /\ \E legs : up' = [stmt EXCEPT !.legs = legs]
      BY <2>3 DEF ConfigureKnown
    <3> QED BY <1>2, <3>1
  <2> QED BY <2>1, <2>2, <2>3
<1>4. \A i \in 1..Len(stmt.points) :
        points[i] = stmt.points[i] \/ Renamed(stmt.points[i], points[i])
  BY <1>1, MappedVectors
<1> HIDE DEF points
<1>5. ASSUME NEW i \in 1..Len(stmt.points)
      PROVE  Carried(stmt.points[i], up'.points[i], up'.legs, at')
  BY <1>1, <1>3, <1>4, ConfiguredVectors
<1> QED BY <1>3, <1>5 DEF Vectors, PointVectors

\* Every step keeps the vectors.
LEMMA StepVectors == IInv /\ Vectors /\ [UpsertStep]_vars => Vectors'
<1> SUFFICES ASSUME IInv, Vectors, [UpsertStep]_vars PROVE Vectors'
  OBVIOUS
<1>1. CASE UNCHANGED <<stmt, up, at>>
  <2>1. stmt' = stmt /\ up' = up /\ at' = at
    BY <1>1
  <2> QED
    BY <2>1 DEF Vectors, PointVectors
<1>2. CASE (ConfigureBare \/ ConfigureMissing \/ ConfigureKnown) /\ ~Fails
  BY <1>2, ConfigureVectors
<1>3. CASE EmbedLeg /\ ~Fails
  BY <1>3, EmbedLegVectors
<1>4. CASE Ensure \/ Create \/ Send \/ Fail \/ Change \/ Fails \/ UNCHANGED vars
  BY <1>1, <1>4 DEF Ensure, Create, Send, Fail, Change, Fails, vars
<1> QED BY <1>2, <1>3, <1>4 DEF UpsertStep

\* No vector of the user's is lost (UserVectorsKept), for all statements, schemas
\* and answers: embed_upsert only inserts under a leg's name (resolve.rs), and
\* map_unnamed_vectors moves an unnamed vector to a name (upsert.rs).
THEOREM UserVectorsStay == UpsertSpec => []UserVectorsKept
<1> DEFINE J == IInv /\ Vectors
<1>1. UpsertInit => J
  <2> SUFFICES ASSUME UpsertInit PROVE J
    OBVIOUS
  <2>1. IInv
    BY InitOwn
  <2>2. stmt \in Upserts /\ up = stmt
    BY DEF UpsertInit
  <2>3. Vectors
    BY <2>2, ConfiguredVectors DEF Vectors, PointVectors
  <2> QED BY <2>1, <2>3
<1>2. J /\ [UpsertStep]_vars => J'
  BY StepOwn, StepVectors
<1>3. J => UserVectorsKept
  <2> SUFFICES ASSUME J PROVE UserVectorsKept
    OBVIOUS
  <2>1. DOMAIN stmt.points = 1..Len(stmt.points)
    BY Statement DEF IInv, Kept
  <2> QED BY <2>1 DEF Vectors, PointVectors, Carried, UserVectorsKept
<1> HIDE DEF J
<1> QED BY <1>1, <1>2, <1>3, PTL DEF UpsertSpec

-----------------------------------------------------------------------------
(* The names the vectors are sent under. *)

\* Where a schema has room for a vector of a kind.
RoomFor(schema, kind) == IF kind = "sparse" THEN schema.sparse ELSE schema.dense

\* The statement has no clauses.
HasBare == \E k \in DOMAIN up.legs : up.legs[k].bare

\* Legs configured from a schema have targets it has.
FromSchema ==
  \/ seen = <<>>
  \/ /\ seen \in {<<s>> : s \in Schemas}
     /\ \/ HasBare
        \/ \A k \in DOMAIN up.legs :
             /\ up.legs[k].vec # <<>>
             /\ up.legs[k].vec[1] \in Available(SchemaTargets(seen[1]), up.legs[k].kind)

\* The legs a collection is created for agree on the name of a kind,
Agree ==
  \A j, k \in DOMAIN up.legs :
    Covered(up.legs[j]) /\ Covered(up.legs[k]) /\ up.legs[j].kind = up.legs[k].kind
      => up.legs[j].vec[1] = up.legs[k].vec[1]

\* and it has it.
ForLegs ==
  \A k \in DOMAIN up.legs :
    Covered(up.legs[k]) => up.legs[k].vec[1] \in RoomFor(made[1], up.legs[k].kind)

\* Targets fit the schema they were configured from, and the one made for them.
Resolved ==
  /\ pc = "configure" => seen = <<>> /\ made = <<>>
  /\ FromSchema
  /\ pc = "create" => Agree
  /\ made # <<>> => ForLegs /\ made = <<made[1]>> /\ pc \in {"send", "done", "refused", "error"}

\* A target that is not unnamed and that a schema has for a kind has room.
LEMMA AvailableFits ==
  ASSUME NEW s \in Schemas, NEW kind, NEW n \in Available(SchemaTargets(s), kind), n # Unnamed
  PROVE  n \in RoomFor(s, kind)
<1>1. s \in [dense : SUBSET VectorNames, sparse : SUBSET VectorNames, multi : SUBSET VectorNames]
      /\ s.multi \subseteq s.dense
  BY UpsertAssumption
<1> DEFINE names == SchemaTargets(s)
<1>2. names.sparse = s.sparse /\ names.multi = s.multi /\ names.dense \subseteq s.dense \union {Unnamed}
  BY <1>1 DEF SchemaTargets
<1> HIDE DEF names
<1> QED BY <1>1, <1>2 DEF Available, RoomFor, names

\* Finite sets of at most one member.
LEMMA AtMostOne ==
  ASSUME NEW S, IsFiniteSet(S), ~(Cardinality(S) > 1), NEW a \in S, NEW b \in S
  PROVE  a = b
<1> SUFFICES ASSUME a # b PROVE FALSE
  OBVIOUS
<1> DEFINE T == {a}
<1>1. IsFiniteSet(T) /\ Cardinality(T) = 1 /\ b \notin T /\ T \union {b} \subseteq S
  BY FS_Singleton
<1> HIDE DEF T
<1>2. IsFiniteSet(T \union {b}) /\ Cardinality(T \union {b}) = 2
  BY <1>1, FS_AddElement
<1>3. Cardinality(T \union {b}) <= Cardinality(S) /\ Cardinality(S) \in Nat
  BY <1>1, FS_Subset, FS_CardinalityType
<1> QED BY <1>2, <1>3

\* The resolved legs have a target among those available for their kind.
LEMMA ResolvedTargets ==
  ASSUME NEW legs, NEW names, Resolvable(legs, names),
         \A k \in DOMAIN legs : legs[k] \in Clause \/ legs[k] \in AnyLeg,
         NEW k \in DOMAIN legs
  PROVE  LET leg == ResolveLegs(legs, names)[k]
         IN  leg.vec # <<>> /\ leg.vec[1] \in Available(names, leg.kind)
<1> DEFINE A == Available(names, legs[k].kind)
<1>1. IF legs[k].vec # <<>> THEN legs[k].vec[1] \in A ELSE Cardinality(A) = 1
  BY DEF Resolvable
<1>2. CASE legs[k].vec # <<>>
  BY <1>1, <1>2 DEF ResolveLegs
<1>3. CASE legs[k].vec = <<>>
  <2> DEFINE n == CHOOSE x \in A : TRUE
  <2>1. n \in A
    <3>1. Cardinality(A) = 1
      BY <1>1, <1>3
    <3> HIDE DEF A
    <3>2. A # {}
      BY <3>1, FS_EmptySet
    <3> QED BY <3>2
  <2>2. ResolveLegs(legs, names)[k] = [legs[k] EXCEPT !.vec = <<n>>]
    BY <1>3 DEF ResolveLegs
  <2> HIDE DEF n
  <2>3. [legs[k] EXCEPT !.vec = <<n>>].vec = <<n>> /\ [legs[k] EXCEPT !.vec = <<n>>].kind = legs[k].kind
    BY DEF Clause, AnyLeg
  <2> QED BY <2>1, <2>2, <2>3
<1> QED BY <1>2, <1>3

\* The configuration takes its targets from the schema it has seen.
LEMMA ConfigureResolved ==
  ASSUME IInv, Resolved, ConfigureBare \/ ConfigureMissing \/ ConfigureKnown, ~Fails
  PROVE  Resolved'
<1>1. stmt \in Upserts /\ pc = "configure" /\ srv \in Optional(Schemas)
  BY DEF IInv, Kept, Configuring, ConfigureBare, ConfigureMissing, ConfigureKnown
<1>2. seen = <<>> /\ made = <<>>
  BY <1>1 DEF Resolved
<1>3. pc' = "embed" /\ made' = <<>>
  BY <1>2 DEF ConfigureBare, ConfigureMissing, ConfigureKnown
<1>4. FromSchema'
  <2>1. CASE ConfigureBare
    <3> DEFINE points == MapUnnamed(stmt.points, SchemaTargets(srv[1]))
    <3>1. up'.legs = <<BareLeg>> /\ (seen' = seen \/ seen' = srv)
      <4>1. stmt = [points |-> stmt.points, legs |-> stmt.legs]
        BY <1>1, Statement
      <4>2. [stmt EXCEPT !.legs = <<BareLeg>>].legs = <<BareLeg>>
        BY <4>1
      <4>3. (\/ up' = [points |-> points, legs |-> <<BareLeg>>]
             \/ up' = [stmt EXCEPT !.legs = <<BareLeg>>])
            /\ (seen' = seen \/ seen' = srv)
        BY <2>1 DEF ConfigureBare
      <4> HIDE DEF points
      <4>4. up'.legs = <<BareLeg>>
        <5>1. CASE up' = [points |-> points, legs |-> <<BareLeg>>]
          BY <5>1
        <5>2. CASE up' = [stmt EXCEPT !.legs = <<BareLeg>>]
          BY <4>2, <5>2
        <5> QED BY <4>3, <5>1, <5>2
      <4> QED BY <4>3, <4>4
    <3>2. HasBare'
      <4>1. BareLeg.bare = TRUE
        BY DEF BareLeg, UsingLeg
      <4>2. 1 \in DOMAIN up'.legs /\ up'.legs[1] = BareLeg
        BY <3>1
      <4> QED BY <4>1, <4>2 DEF HasBare
    <3>3. seen' = <<>> \/ seen' \in {<<s>> : s \in Schemas}
      BY <1>1, <1>2, <3>1 DEF Optional
    <3> QED BY <3>2, <3>3 DEF FromSchema
  <2>2. CASE ConfigureMissing
    BY <1>2, <2>2 DEF ConfigureMissing, FromSchema
  <2>3. CASE ConfigureKnown
    <3> DEFINE names == SchemaTargets(srv[1])
               legs  == IF stmt.legs # <<>> THEN stmt.legs ELSE InferLegs(names)
    <3>1. /\ Resolvable(legs, names) /\ seen' = srv /\ srv # <<>>
          /\ up' = [stmt EXCEPT !.legs = ResolveLegs(legs, names)]
      BY <2>3 DEF ConfigureKnown
    <3>2. seen' \in {<<s>> : s \in Schemas} /\ srv[1] \in Schemas
      BY <1>1, <3>1 DEF Optional
    <3>3. legs \in Seq(Clause) \/ legs \in Seq(AnyLeg)
      BY <1>1, <3>2, LegsOf
    <3> HIDE DEF names, legs
    <3>4. \A k \in DOMAIN legs : legs[k] \in Clause \/ legs[k] \in AnyLeg
      BY <3>3
    <3> DEFINE resolved == ResolveLegs(legs, names)
    <3>5. DOMAIN resolved = DOMAIN legs
      BY DEF ResolveLegs
    <3>6. \A k \in DOMAIN resolved :
            resolved[k].vec # <<>> /\ resolved[k].vec[1] \in Available(names, resolved[k].kind)
      BY <3>1, <3>4, <3>5, ResolvedTargets
    <3> HIDE DEF resolved
    <3>7. up'.legs = resolved
      <4>1. [stmt EXCEPT !.legs = resolved] = [points |-> stmt.points, legs |-> resolved]
        BY <1>1, Statement
      <4> QED BY <3>1, <4>1 DEF resolved
    <3> QED BY <3>1, <3>2, <3>6, <3>7 DEF FromSchema, names
  <2> QED BY <2>1, <2>2, <2>3
<1> QED BY <1>3, <1>4 DEF Resolved

\* When a collection is to be created, the names agree.
LEMMA EnsureResolved ==
  ASSUME IInv, Resolved, Ensure
  PROVE  Resolved'
<1>1. UNCHANGED <<up, seen, made>> /\ made = <<>> /\ pc' # "configure"
  BY DEF Ensure, AllEmbedded, Resolved
<1>2. ASSUME pc' = "create" PROVE Agree
  <2>1. ~(Cardinality(Named("dense")) > 1) /\ ~(Cardinality(Named("sparse")) > 1)
    BY <1>2 DEF Ensure
  <2>2. SUFFICES ASSUME NEW j \in DOMAIN up.legs, NEW k \in DOMAIN up.legs,
                        Covered(up.legs[j]), Covered(up.legs[k]), up.legs[j].kind = up.legs[k].kind
                 PROVE  up.legs[j].vec[1] = up.legs[k].vec[1]
    BY DEF Agree
  <2> DEFINE kind == up.legs[j].kind
             D == {i \in Counting(kind) : up.legs[i].vec # <<>>}
  <2>3. kind \in {"dense", "sparse"} /\ j \in D /\ k \in D
    BY <2>2 DEF Covered, Counting
  <2>4. up.legs[j].vec[1] \in Named(kind) /\ up.legs[k].vec[1] \in Named(kind)
    BY <2>3 DEF Named
  <2>5. IsFiniteSet(Named(kind))
    <3>1. PICK m \in Nat : DOMAIN up.legs = 1..m
      BY DEF IInv, Kept
    <3>2. IsFiniteSet(1..m) /\ D \subseteq 1..m
      BY <3>1, FS_Interval DEF Counting
    <3>3. IsFiniteSet(D)
      <4> HIDE DEF D
      <4> QED BY <3>2, FS_Subset
    <3> DEFINE f == [i \in D |-> up.legs[i].vec[1]]
    <3>4. Named(kind) = {f[i] : i \in D}
      BY DEF Named
    <3>5. f \in Surjection(D, Named(kind))
      <4> HIDE DEF D
      <4> QED BY <3>4 DEF Surjection
    <3> HIDE DEF D, f
    <3> QED BY <3>3, <3>5, FS_Surjection
  <2> QED BY <2>1, <2>3, <2>4, <2>5, AtMostOne
<1>3. (pc = "create" => Agree)'
  BY <1>1, <1>2 DEF Agree
<1>4. FromSchema'
  BY <1>1 DEF Resolved, FromSchema, HasBare
<1> QED BY <1>1, <1>3, <1>4 DEF Resolved

\* The collection that is created has a name for every leg it is created for.
LEMMA CreateResolved ==
  ASSUME IInv, Resolved, Create, ~Fails
  PROVE  Resolved'
<1>1. pc = "create" /\ pc' = "send" /\ UNCHANGED <<up, seen>> /\ Agree
  BY DEF Create, Resolved
<1> DEFINE One(kind) == IF Counting(kind) = {} THEN {} ELSE {NameOr(kind)}
           new == [dense |-> One("dense"), sparse |-> One("sparse"), multi |-> {}]
<1>2. made' = <<new>>
  BY DEF Create
<1>3. ASSUME NEW k \in DOMAIN up.legs, Covered(up.legs[k])
      PROVE  up.legs[k].vec[1] \in RoomFor(new, up.legs[k].kind)
  <2> DEFINE kind == up.legs[k].kind
  <2>1. kind \in {"dense", "sparse"} /\ k \in Counting(kind) /\ up.legs[k].vec # <<>>
    BY <1>3 DEF Covered, Counting
  <2>2. up.legs[k].vec[1] \in Named(kind)
    BY <2>1 DEF Named
  <2>3. NameOr(kind) \in Named(kind)
    <3> DEFINE N == Named(kind)
    <3>1. NameOr(kind) = CHOOSE n \in N : TRUE
      BY <2>2 DEF NameOr
    <3>2. \E n : n \in N
      BY <2>2
    <3> HIDE DEF N
    <3>3. (CHOOSE n \in N : TRUE) \in N
      BY <3>2
    <3> QED BY <3>1, <3>3 DEF N
  <2>4. PICK j \in Counting(kind) : up.legs[j].vec # <<>> /\ NameOr(kind) = up.legs[j].vec[1]
    BY <2>3 DEF Named
  <2>5. j \in DOMAIN up.legs /\ Covered(up.legs[j]) /\ up.legs[j].kind = kind
    BY <2>1, <2>4 DEF Counting, Covered
  <2>6. up.legs[k].vec[1] = NameOr(kind)
    BY <1>1, <1>3, <2>4, <2>5 DEF Agree
  <2>7. RoomFor(new, kind) = One(kind)
    BY <2>1 DEF RoomFor
  <2> QED BY <2>1, <2>6, <2>7
<1>4. ForLegs'
  <2> HIDE DEF new
  <2> QED BY <1>1, <1>2, <1>3 DEF ForLegs
<1>5. FromSchema'
  BY <1>1 DEF Resolved, FromSchema, HasBare
<1>6. made' = <<made'[1]>>
  <2> HIDE DEF new
  <2> QED BY <1>2
<1> QED BY <1>1, <1>4, <1>5, <1>6 DEF Resolved

\* A step that leaves the legs and what is known of the collection alone.
LEMMA SameResolved ==
  ASSUME Resolved, up'.legs = up.legs, UNCHANGED <<seen, made>>,
         pc' = "configure" => pc = "configure", pc' = "create" => pc = "create",
         pc \in {"send", "done", "refused", "error"} => pc' \in {"send", "done", "refused", "error"}
  PROVE  Resolved'
<1>1. FromSchema' /\ (pc' = "create" => Agree') /\ (made' # <<>> => ForLegs' /\ made' = <<made'[1]>>)
  BY DEF Resolved, FromSchema, HasBare, Agree, ForLegs
<1> QED BY <1>1 DEF Resolved

\* Every step keeps what is known of the targets.
LEMMA StepResolved == IInv /\ Resolved /\ [UpsertStep]_vars => Resolved'
<1> SUFFICES ASSUME IInv, Resolved, [UpsertStep]_vars PROVE Resolved'
  OBVIOUS
<1>1. CASE Fails
  BY <1>1, SameResolved DEF Fails
<1>2. CASE (ConfigureBare \/ ConfigureMissing \/ ConfigureKnown) /\ ~Fails
  BY <1>2, ConfigureResolved
<1>3. CASE EmbedLeg /\ ~Fails
  <2>1. pc' = pc /\ up'.legs = up.legs /\ UNCHANGED <<seen, made>>
    BY <1>3, EmbedLegWrites
  <2> QED BY <2>1, SameResolved
<1>4. CASE Ensure
  BY <1>4, EnsureResolved
<1>5. CASE Create /\ ~Fails
  BY <1>5, CreateResolved
<1>6. CASE Send
  BY <1>6, SameResolved DEF Send
<1>7. CASE Change
  BY <1>7, SameResolved DEF Change
<1>8. CASE UNCHANGED vars
  BY <1>8, SameResolved DEF vars
<1> QED BY <1>1, <1>2, <1>3, <1>4, <1>5, <1>6, <1>7, <1>8 DEF UpsertStep, Fail

\* The collection the targets come from, or that was created for them, accepts them.
LEMMA AcceptsOwn ==
  ASSUME IInv, Vectors, Resolved, NEW s, Promised = <<s>>, ~HasBare,
         made # <<>> => \A k \in DOMAIN up.legs : Covered(up.legs[k]),
         NEW i \in 1..Len(stmt.points)
  PROVE  Accepts(s, up.points[i])
<1> DEFINE vecs == up.points[i].vecs
<1> SUFFICES ASSUME NEW n \in DOMAIN vecs, vecs[n] # <<"user">>
             PROVE  n \in RoomFor(s, vecs[n][1])
  BY DEF Accepts, RoomFor
<1>1. PICK k \in DOMAIN up.legs :
        n # Unnamed /\ TargetName(up.legs[k]) = n /\ vecs[n][1] = up.legs[k].kind
  BY DEF Vectors, PointVectors, Carried
<1> HIDE DEF vecs
<1>2. CASE made # <<>>
  <2>1. made = <<s>> /\ Covered(up.legs[k]) /\ ForLegs
    BY <1>2 DEF Promised, Resolved
  <2>2. up.legs[k].vec[1] = n
    BY <1>1, <2>1 DEF TargetName, Covered
  <2>3. made[1] = s
    BY <2>1
  <2> QED BY <1>1, <2>1, <2>2, <2>3 DEF ForLegs
<1>3. CASE made = <<>>
  <2>1. seen = <<s>> /\ seen # <<>>
    <3>1. seen = <<s>>
      BY <1>3 DEF Promised
    <3>2. <<s>> # <<>>
      OBVIOUS
    <3> QED BY <3>1, <3>2
  <2>2. /\ s \in Schemas
        /\ up.legs[k].vec # <<>>
        /\ up.legs[k].vec[1] \in Available(SchemaTargets(s), up.legs[k].kind)
    <3>1. PICK t \in Schemas : seen = <<t>>
      BY <2>1 DEF Resolved, FromSchema
    <3>2. t = s /\ seen[1] = s
      BY <2>1, <3>1
    <3> QED BY <2>1, <3>1, <3>2 DEF Resolved, FromSchema
  <2>3. n \in Available(SchemaTargets(s), up.legs[k].kind)
    BY <1>1, <2>2 DEF TargetName
  <2> QED BY <1>1, <2>2, <2>3, AvailableFits
<1> QED BY <1>2, <1>3

\* So a refusal has another reason.
LEMMA StepFit == IInv /\ Vectors /\ Resolved /\ TargetsFit /\ [UpsertStep]_vars => TargetsFit'
<1> SUFFICES ASSUME IInv, Vectors, Resolved, TargetsFit, [UpsertStep]_vars, pc' = "refused"
             PROVE  TargetsFit'
  BY DEF TargetsFit
<1>1. Send \/ UNCHANGED vars
  <2>1. pc' # "refused" \/ Send \/ UNCHANGED vars
    BY DEF UpsertStep, ConfigureBare, ConfigureMissing, ConfigureKnown, EmbedLeg, Ensure, Create,
           Fail, Fails, Change
  <2> QED BY <2>1
<1>2. CASE UNCHANGED vars
  BY <1>2 DEF TargetsFit, Promised, Covered, vars
<1>3. CASE Send
  <2>1. UNCHANGED <<up, srv, seen, made>>
        /\ ~(srv # <<>> /\ \A i \in DOMAIN up.points : Accepts(srv[1], up.points[i]))
    BY <1>3 DEF Send
  <2> SUFFICES ASSUME srv = Promised, Promised # <<>>, ~HasBare,
                      made # <<>> => \A k \in DOMAIN up.legs : Covered(up.legs[k])
               PROVE  FALSE
    BY <2>1 DEF TargetsFit, Promised, HasBare, Covered
  <2>2. PICK s : Promised = <<s>>
    BY DEF Promised, Resolved, FromSchema
  <2>3. DOMAIN up.points = 1..Len(stmt.points)
    BY DEF IInv, Kept
  <2>4. \A i \in DOMAIN up.points : Accepts(s, up.points[i])
    BY <2>2, <2>3, AcceptsOwn
  <2> QED BY <2>1, <2>2, <2>4
<1> QED BY <1>1, <1>2, <1>3

\* The server refuses no vectors for their names while the collection is the one
\* they were prepared for (TargetsFit), for all statements, schemas and answers.
THEOREM TargetsAreFit == UpsertSpec => []TargetsFit
<1> DEFINE J == IInv /\ Vectors /\ Resolved /\ TargetsFit
<1>1. UpsertInit => J
  <2> SUFFICES ASSUME UpsertInit PROVE J
    OBVIOUS
  <2>1. IInv
    BY InitOwn
  <2>2. stmt \in Upserts /\ up = stmt /\ pc = "configure" /\ seen = <<>> /\ made = <<>>
    BY DEF UpsertInit
  <2>3. Vectors
    BY <2>2, ConfiguredVectors DEF Vectors, PointVectors
  <2>4. Resolved /\ TargetsFit
    BY <2>2 DEF Resolved, FromSchema, TargetsFit
  <2> QED BY <2>1, <2>3, <2>4
<1>2. J /\ [UpsertStep]_vars => J'
  BY StepOwn, StepVectors, StepResolved, StepFit
<1> HIDE DEF J
<1>3. J => TargetsFit
  BY DEF J
<1> QED BY <1>1, <1>2, <1>3, PTL DEF UpsertSpec

-----------------------------------------------------------------------------
(* Flattened lists.                                                        *)

\* Arithmetic of places.
LEMMA SumBetween ==
  \A a, b, c \in Nat : c = a + b => \A i \in 1..b : \A p : p = a + i => p \in Nat /\ p \in 1..c
OBVIOUS

\* and beyond the first.
LEMMA SumBeyond ==
  \A a, b \in Nat : \A i \in 1..b : \A p : p = a + i => p \in 1..(a + b) /\ ~(p <= a) /\ p - a = i
OBVIOUS

\* A number between two others, other than the first, and the one before it.
LEMMA StepBack ==
  \A k \in Nat \ {0} : \A n \in 1..k : \A m \in n..k :
    m # n => m \in 2..k /\ m - 1 \in n..k /\ m - 1 \in 1..k /\ m \in 1..k
OBVIOUS

\* A set of numbers has a least one.
LEMMA LeastElement ==
  ASSUME NEW S \in SUBSET Nat, S # {}
  PROVE  \E x \in S : \A y \in S : x <= y
<1> DEFINE R == OpToRel(<, Nat)
<1>1. IsWellFoundedOn(R, Nat)
  BY NatLessThanWellFounded
<1>2. \A x, y \in Nat : y < x => <<y, x>> \in R
  BY DEF OpToRel
<1> HIDE DEF R
<1>3. PICK x \in S : \A y \in S : ~ (<<y, x>> \in R)
  BY <1>1, WFMin
<1>4. ASSUME NEW y \in S PROVE x <= y
  <2>1. x \in Nat /\ y \in Nat /\ ~ (<<y, x>> \in R)
    BY <1>3
  <2> QED
    BY <1>2, <2>1
<1> QED
  BY <1>4

\* A list of lists has a flattening.
LEMMA FlattenExists ==
  ASSUME NEW S, NEW ss \in Seq(Seq(S)), Len(ss) # 0
  PROVE  \E g \in [1..Len(ss) -> Seq(S)] :
           g = [i \in 1..Len(ss) |-> IF i = 1 THEN ss[i] ELSE g[i - 1] \o ss[i]]
<1> DEFINE Reaches(m) == \E g \in [1..m -> Seq(S)] :
              g[1] = ss[1] /\ \A n \in 2..m : g[n] = g[n - 1] \o ss[n]
           Bad == {m \in 1..Len(ss) : ~Reaches(m)}
<1>1. Len(ss) \in Nat \ {0} /\ \A n \in 1..Len(ss) : ss[n] \in Seq(S)
  BY LenProperties, ElementOfSeq
<1>2. Bad = {}
  <2> SUFFICES ASSUME Bad # {} PROVE FALSE
    OBVIOUS
  <2>1. Bad \in SUBSET Nat
    <3> HIDE DEF Reaches
    <3> QED
      BY <1>1
  <2>2. PICK m \in Bad : \A k \in Bad : m <= k
    <3> HIDE DEF Bad
    <3> QED
      BY <2>1, LeastElement
  <2>3. m # 1
    <3> DEFINE g == [n \in 1..1 |-> ss[1]]
    <3>1. g \in [1..1 -> Seq(S)] /\ g[1] = ss[1] /\ \A n \in 2..1 : g[n] = g[n - 1] \o ss[n]
      BY <1>1
    <3>2. Reaches(1)
      BY <3>1
    <3> QED
      BY <3>2
  <2>4. m \in 2..Len(ss) /\ m - 1 \in 1..Len(ss) /\ m - 1 \notin Bad
    <3> HIDE DEF Reaches
    <3> QED
      BY <1>1, <2>2, <2>3
  <2>5. PICK g \in [1..(m - 1) -> Seq(S)] :
          g[1] = ss[1] /\ \A n \in 2..(m - 1) : g[n] = g[n - 1] \o ss[n]
    BY <2>4
  <2> DEFINE h == [n \in 1..m |-> IF n = m THEN g[m - 1] \o ss[m] ELSE g[n]]
  <2>6. g[m - 1] \o ss[m] \in Seq(S)
    <3>1. g[m - 1] \in Seq(S) /\ ss[m] \in Seq(S)
      BY <1>1, <2>4, <2>5
    <3> QED
      BY <3>1, ConcatProperties
  <2>7. h \in [1..m -> Seq(S)] /\ h[1] = ss[1]
    BY <2>3, <2>4, <2>5, <2>6
  <2>8. ASSUME NEW n \in 2..m PROVE h[n] = h[n - 1] \o ss[n]
    <3>1. CASE n = m
      <4>1. m \in 1..m /\ m - 1 \in 1..m /\ m - 1 # m
        BY <2>4
      <4>2. h[m] = g[m - 1] \o ss[m] /\ h[m - 1] = g[m - 1]
        BY <4>1
      <4> QED
        BY <3>1, <4>2
    <3>2. CASE n # m
      <4>1. n \in 2..(m - 1) /\ n - 1 \in 1..(m - 1) /\ n - 1 # m /\ n \in 1..m /\ n - 1 \in 1..m
        BY <2>4, <3>2
      <4>2. h[n] = g[n] /\ h[n - 1] = g[n - 1]
        BY <3>2, <4>1
      <4> QED
        BY <2>5, <4>1, <4>2
    <3> QED
      BY <3>1, <3>2
  <2> HIDE DEF h
  <2>9. Reaches(m)
    BY <2>7, <2>8
  <2> QED
    BY <2>2, <2>9
<1>3. Reaches(Len(ss))
  <2> HIDE DEF Reaches
  <2>1. \A m \in 1..Len(ss) : Reaches(m)
    BY <1>2
  <2>2. Len(ss) \in 1..Len(ss)
    BY <1>1
  <2> QED
    BY <2>1, <2>2, Zenon
<1>4. PICK g \in [1..Len(ss) -> Seq(S)] :
        g[1] = ss[1] /\ \A n \in 2..Len(ss) : g[n] = g[n - 1] \o ss[n]
  BY <1>3
<1>5. \A i \in 1..Len(ss) : g[i] = IF i = 1 THEN ss[i] ELSE g[i - 1] \o ss[i]
  <2>1. \A i \in 1..Len(ss) : i # 1 => i \in 2..Len(ss)
    BY <1>1
  <2> QED
    BY <1>4, <2>1
<1>6. g = [i \in 1..Len(ss) |-> IF i = 1 THEN ss[i] ELSE g[i - 1] \o ss[i]]
  <2> HIDE DEF Reaches, Bad
  <2> QED
    BY <1>4, <1>5
<1> QED
  BY <1>6

\* Where the lists are in the flattening: list n ends at off[n].
Offsets(off, ss, flat) ==
  /\ off \in [0..Len(ss) -> Nat] /\ off[0] = 0 /\ off[Len(ss)] = Len(flat)
  /\ \A n \in 1..Len(ss) : off[n] = off[n - 1] + Len(ss[n])
  /\ \A n \in 1..Len(ss) : \A j \in 1..Len(ss[n]) : flat[off[n - 1] + j] = ss[n][j]

\* The flattening of a list of lists: it is a list of the same things, and the
\* lists are in it one after the other.
LEMMA Flattened ==
  ASSUME NEW S, NEW ss \in Seq(Seq(S))
  PROVE  /\ FlattenSeq(ss) \in Seq(S)
         /\ \E off : Offsets(off, ss, FlattenSeq(ss))
<1>1. Len(ss) \in Nat /\ \A n \in 1..Len(ss) : ss[n] \in Seq(S) /\ Len(ss[n]) \in Nat
  BY LenProperties, ElementOfSeq
<1>2. CASE Len(ss) = 0
  <2>1. ss = <<>> /\ FlattenSeq(ss) = <<>>
    BY <1>2, EmptySeq DEF FlattenSeq
  <2> DEFINE off == [n \in 0..0 |-> 0]
  <2>2. off \in [0..0 -> Nat] /\ off[0] = 0
    OBVIOUS
  <2> HIDE DEF off
  <2>3. Offsets(off, ss, FlattenSeq(ss))
    BY <1>2, <2>1, <2>2 DEF Offsets
  <2> QED
    BY <2>1, <2>3, EmptySeq
<1>3. CASE Len(ss) # 0
  <2> DEFINE N == Len(ss)
             F(f) == [i \in 1..N |-> IF i = 1 THEN ss[i] ELSE f[i - 1] \o ss[i]]
             r == CHOOSE f : f = F(f)
  <2>1. PICK g \in [1..N -> Seq(S)] : g = F(g)
    BY <1>3, FlattenExists
  <2>2. r = F(r) /\ FlattenSeq(ss) = r[N]
    <3>1. r = F(r)
      <4> HIDE DEF F
      <4> QED BY <2>1
    <3> QED BY <1>3, <3>1 DEF FlattenSeq
  <2> HIDE DEF r
  <2>a. N \in Nat \ {0}
    BY <1>1, <1>3
  <2>b. \A n \in 1..N : r[n] = IF n = 1 THEN ss[n] ELSE r[n - 1] \o ss[n]
    <3> HIDE DEF N
    <3> QED
      BY <2>2
  <2> HIDE DEF F, N
  <2>3. N \in Nat \ {0} /\ r[1] = ss[1] /\ \A n \in 2..N : r[n] = r[n - 1] \o ss[n]
    <3>1. 1 \in 1..N /\ \A n \in 2..N : n \in 1..N /\ n # 1
      BY <2>a
    <3> QED
      BY <2>a, <2>b, <3>1
  <2>c. \A n \in 1..N : ss[n] \in Seq(S) /\ Len(ss[n]) \in Nat
    BY <1>1 DEF N
  <2>4. \A n \in 1..N : r[n] \in Seq(S)
    <3> DEFINE Bad == {n \in 1..N : r[n] \notin Seq(S)}
    <3> SUFFICES ASSUME Bad # {} PROVE FALSE
      OBVIOUS
    <3>1. Bad \in SUBSET Nat
      BY <2>a
    <3>2. PICK m \in Bad : \A k \in Bad : m <= k
      BY <3>1, LeastElement
    <3>3. m # 1 /\ m \in 2..N /\ m - 1 \in 1..N /\ m - 1 \notin Bad
      <4>1. m # 1
        BY <2>3, <2>c, <3>2
      <4> QED
        BY <2>a, <3>2, <4>1
    <3>4. r[m - 1] \in Seq(S) /\ ss[m] \in Seq(S)
      BY <2>c, <3>3
    <3> HIDE DEF Bad
    <3>5. r[m - 1] \o ss[m] \in Seq(S)
      BY <3>4, ConcatProperties
    <3>6. r[m] \in Seq(S)
      BY <2>3, <3>3, <3>5
    <3> QED BY <3>2, <3>6 DEF Bad
  <2> DEFINE off == [n \in 0..N |-> IF n = 0 THEN 0 ELSE Len(r[n])]
  <2>5. off \in [0..N -> Nat] /\ off[0] = 0 /\ off[N] = Len(r[N])
        /\ \A n \in 1..N : off[n] = Len(r[n])
    <3>1. \A n \in 1..N : Len(r[n]) \in Nat
      BY <2>4, LenProperties
    <3> QED BY <2>3, <3>1
  <2> HIDE DEF off
  <2>6. \A n \in 1..N : off[n] = off[n - 1] + Len(ss[n])
    <3> SUFFICES ASSUME NEW n \in 1..N PROVE off[n] = off[n - 1] + Len(ss[n])
      OBVIOUS
    <3>1. CASE n = 1
      BY <1>1, <2>3, <2>5, <3>1
    <3>2. CASE n # 1
      <4>1. n \in 2..N /\ n - 1 \in 1..N
        BY <2>3, <3>2
      <4>2. Len(r[n - 1] \o ss[n]) = Len(r[n - 1]) + Len(ss[n])
        BY <2>c, <2>4, <4>1, ConcatProperties
      <4> QED BY <2>3, <2>5, <4>1, <4>2
    <3> QED BY <3>1, <3>2
  <2>7. ASSUME NEW n \in 1..N, NEW j \in 1..Len(ss[n]), NEW p, p = off[n - 1] + j
        PROVE  \A m \in n..N : p \in 1..off[m] /\ r[m][p] = ss[n][j]
    <3> DEFINE Bad == {m \in n..N : ~(p \in 1..off[m] /\ r[m][p] = ss[n][j])}
    <3> SUFFICES ASSUME Bad # {} PROVE FALSE
      OBVIOUS
    <3>1. Bad \in SUBSET Nat
      BY <2>a
    <3>2. PICK m \in Bad : \A k \in Bad : m <= k
      BY <3>1, LeastElement
    <3>3. n - 1 \in 0..N /\ Len(ss[n]) \in Nat
      BY <2>a, <2>c
    <3>3a. off[n - 1] \in Nat /\ off[n] \in Nat /\ off[n] = off[n - 1] + Len(ss[n])
      BY <2>a, <2>5, <2>6, <3>3
    <3>3c. PICK start, size, end : start = off[n - 1] /\ size = Len(ss[n]) /\ end = off[n]
      BY Zenon
    <3>3d. /\ start \in Nat /\ size \in Nat /\ end \in Nat /\ end = start + size
           /\ j \in 1..size /\ p = start + j
      BY <2>7, <3>3, <3>3a, <3>3c, Zenon
    <3>3b. p \in Nat /\ p \in 1..off[n]
      BY <3>3c, <3>3d, SumBetween, Zenon
    <3>4. CASE m = n
      <4>2. CASE n = 1
        <5>1. p = j
          BY <2>5, <2>7, <4>2
        <5> QED
          BY <2>3, <3>2, <3>3b, <3>4, <4>2, <5>1
      <4>3. CASE n # 1
        <5>1. n \in 2..N /\ n - 1 \in 1..N
          BY <2>3, <4>3
        <5>2. r[n - 1] \in Seq(S) /\ ss[n] \in Seq(S) /\ off[n - 1] = Len(r[n - 1])
          BY <2>c, <2>4, <2>5, <5>1
        <5>3. p \in 1..(Len(r[n - 1]) + Len(ss[n])) /\ ~(p <= Len(r[n - 1])) /\ p - Len(r[n - 1]) = j
          <6>1. p \in 1..(start + size) /\ ~(p <= start) /\ p - start = j
            BY <3>3d, SumBeyond, Zenon
          <6>2. Len(r[n - 1]) = start
            BY <3>3c, <5>2, Zenon
          <6> QED
            BY <3>3c, <6>1, <6>2, Zenon
        <5>4. (r[n - 1] \o ss[n])[p] = ss[n][j]
          <6>1. PICK a, b, k : a = r[n - 1] /\ b = ss[n] /\ k = p
            BY Zenon
          <6>2. a \in Seq(S) /\ b \in Seq(S) /\ k \in 1..(Len(a) + Len(b)) /\ ~(k <= Len(a))
            BY <5>2, <5>3, <6>1, Zenon
          <6>3. (a \o b)[k] = b[k - Len(a)]
            BY <6>2, ConcatProperties
          <6> QED
            BY <5>3, <6>1, <6>3, Zenon
        <5>5. r[n] = r[n - 1] \o ss[n]
          BY <2>3, <5>1
        <5> QED
          BY <3>2, <3>3b, <3>4, <5>4, <5>5, Zenon
      <4> QED BY <4>2, <4>3
    <3>5. CASE m # n
      <4>1. m \in 2..N /\ m - 1 \in n..N /\ m - 1 \in 1..N /\ m \in 1..N
        <5>1. m \in n..N
          BY <3>2, Zenon
        <5> HIDE DEF Bad
        <5> QED
          BY <2>a, <2>7, <3>5, <5>1, StepBack, Zenon
      <4>1a. m - 1 \notin Bad
        <5>1. ~(m <= m - 1)
          BY <4>1
        <5> HIDE DEF Bad
        <5> QED
          BY <3>2, <5>1
      <4>2. p \in 1..off[m - 1] /\ r[m - 1][p] = ss[n][j]
        BY <4>1, <4>1a
      <4>3. r[m - 1] \in Seq(S) /\ ss[m] \in Seq(S) /\ Len(ss[m]) \in Nat /\ off[m - 1] = Len(r[m - 1])
            /\ off[m - 1] \in Nat
        <5>1. r[m - 1] \in Seq(S) /\ ss[m] \in Seq(S) /\ Len(ss[m]) \in Nat
          BY <2>c, <2>4, <4>1
        <5>2. off[m - 1] = Len(r[m - 1])
          BY <2>5, <4>1
        <5> QED
          BY <5>1, <5>2, LenProperties
      <4>4. p \in 1..(Len(r[m - 1]) + Len(ss[m])) /\ p <= Len(r[m - 1])
        <5>1. \A a, b \in Nat : \A i \in 1..a : i \in 1..(a + b) /\ i <= a
          OBVIOUS
        <5> QED
          BY <4>2, <4>3, <5>1
      <4>5. (r[m - 1] \o ss[m])[p] = r[m - 1][p]
        BY <4>3, <4>4, ConcatProperties
      <4>6. off[m] = off[m - 1] + Len(ss[m])
        BY <2>6, <4>1
      <4>7. p \in 1..off[m]
        BY <4>3, <4>4, <4>6
      <4> QED BY <2>3, <3>2, <4>1, <4>2, <4>5, <4>7
    <3> QED BY <3>4, <3>5
  <2>8. \A n \in 1..N : \A j \in 1..Len(ss[n]) : r[N][off[n - 1] + j] = ss[n][j]
    <3> SUFFICES ASSUME NEW n \in 1..N, NEW j \in 1..Len(ss[n])
                 PROVE  r[N][off[n - 1] + j] = ss[n][j]
      OBVIOUS
    <3>1. N \in n..N
      BY <2>3
    <3>2. PICK p : p = off[n - 1] + j
      OBVIOUS
    <3>3. r[N][p] = ss[n][j]
      BY <2>7, <3>1, <3>2
    <3> QED BY <3>2, <3>3
  <2>9. Offsets(off, ss, r[N])
    BY <2>5, <2>6, <2>8 DEF Offsets, N
  <2>10. r[N] \in Seq(S)
    BY <2>3, <2>4
  <2> QED BY <2>2, <2>9, <2>10
<1> QED BY <1>2, <1>3

\* A later list ends later.
LEMMA OffsetsGrow ==
  ASSUME NEW S, NEW ss \in Seq(Seq(S)), NEW off, NEW flat, Offsets(off, ss, flat),
         NEW m \in 0..Len(ss), NEW n \in m..Len(ss)
  PROVE  off[m] <= off[n]
<1> DEFINE Bad == {k \in m..Len(ss) : ~(off[m] <= off[k])}
<1>1. Len(ss) \in Nat /\ \A k \in 1..Len(ss) : Len(ss[k]) \in Nat
  BY LenProperties, ElementOfSeq
<1> SUFFICES ASSUME Bad # {} PROVE FALSE
  BY <1>1
<1>2. Bad \in SUBSET Nat
  BY <1>1
<1>3. PICK k \in Bad : \A i \in Bad : k <= i
  BY <1>2, LeastElement
<1>4. off[m] \in Nat /\ off[k] \in Nat
  <2>1. m \in 0..Len(ss) /\ k \in 0..Len(ss)
    BY <1>1
  <2> QED
    BY <2>1 DEF Offsets
<1>5. k # m /\ k - 1 \in m..Len(ss) /\ k - 1 \notin Bad /\ k \in 1..Len(ss) /\ k - 1 \in 0..Len(ss)
  BY <1>1, <1>3, <1>4
<1>6. off[k] = off[k - 1] + Len(ss[k]) /\ off[k - 1] \in Nat /\ Len(ss[k]) \in Nat /\ off[m] <= off[k - 1]
  BY <1>1, <1>5 DEF Offsets
<1>7. ~(off[m] <= off[k])
  BY <1>3
<1> HIDE DEF Bad
<1> QED BY <1>4, <1>6, <1>7

\* A list of lists.
Lists(S, ss) == ss \in Seq(Seq(S))

\* Every place of the flattening is in one of the lists.
LEMMA FlattenedPlace ==
  ASSUME NEW S, NEW ss, Lists(S, ss), NEW off, NEW flat, Offsets(off, ss, flat),
         NEW p \in 1..Len(flat)
  PROVE  \E n \in 1..Len(ss) : \E j \in 1..Len(ss[n]) : p = off[n - 1] + j
<1> DEFINE Reach == {n \in 0..Len(ss) : p <= off[n]}
<1>1. Len(ss) \in Nat /\ \A k \in 1..Len(ss) : Len(ss[k]) \in Nat
  BY LenProperties, ElementOfSeq DEF Lists
<1>2. \A n \in 0..Len(ss) : off[n] \in Nat
  BY DEF Offsets
<1>3. Len(ss) \in Reach
  BY <1>1, <1>2 DEF Offsets
<1>4. Reach \in SUBSET Nat
  BY <1>1
<1>5. PICK n \in Reach : \A k \in Reach : n <= k
  BY <1>3, <1>4, LeastElement
<1>6. n # 0
  BY <1>5 DEF Offsets
<1>7. n \in 1..Len(ss) /\ n - 1 \in 0..Len(ss) /\ n - 1 \notin Reach
  BY <1>1, <1>5, <1>6
<1>8. off[n] = off[n - 1] + Len(ss[n]) /\ off[n - 1] \in Nat /\ Len(ss[n]) \in Nat
  BY <1>1, <1>2, <1>7 DEF Offsets
<1>9. p - off[n - 1] \in 1..Len(ss[n]) /\ p = off[n - 1] + (p - off[n - 1])
  BY <1>2, <1>5, <1>7, <1>8
<1> QED BY <1>7, <1>9

\* The places of a list are after the end of the list before it, up to its own.
LEMMA PlaceInList ==
  ASSUME NEW S, NEW ss \in Seq(Seq(S)), NEW off, NEW flat, Offsets(off, ss, flat),
         NEW m \in 1..Len(ss), NEW i, i \in 1..Len(ss[m])
  PROVE  /\ off[m - 1] \in Nat /\ off[m] \in Nat /\ i \in Nat
         /\ off[m - 1] + i \in Nat /\ off[m - 1] < off[m - 1] + i /\ off[m - 1] + i <= off[m]
<1>1. Len(ss) \in Nat /\ Len(ss[m]) \in Nat
  <2>1. ss[m] \in Seq(S) /\ Len(ss) \in Nat
    BY ElementOfSeq, LenProperties
  <2> QED
    BY <2>1, LenProperties
<1>2. m - 1 \in 0..Len(ss) /\ m \in 0..Len(ss)
  BY <1>1
<1>3. off[m] = off[m - 1] + Len(ss[m]) /\ off[m - 1] \in Nat /\ off[m] \in Nat
  BY <1>2 DEF Offsets
<1>4. PICK start, size, end : start = off[m - 1] /\ size = Len(ss[m]) /\ end = off[m]
  BY Zenon
<1>5. start \in Nat /\ size \in Nat /\ end = start + size /\ i \in 1..size
  BY <1>1, <1>3, <1>4, Zenon
<1>6. i \in Nat /\ start + i \in Nat /\ start < start + i /\ start + i <= end
  BY <1>5
<1> QED BY <1>3, <1>4, <1>6, Zenon

\* and in one only.
LEMMA OnePlace ==
  ASSUME NEW S, NEW ss \in Seq(Seq(S)), NEW off, NEW flat, Offsets(off, ss, flat), NEW p,
         NEW m \in 1..Len(ss), NEW i \in 1..Len(ss[m]), p = off[m - 1] + i,
         NEW n \in 1..Len(ss), NEW j \in 1..Len(ss[n]), p = off[n - 1] + j
  PROVE  m = n /\ i = j
<1>1. Len(ss) \in Nat
  BY LenProperties
<1>2. ASSUME NEW k \in 1..Len(ss), NEW l \in 1..Len(ss), k < l
      PROVE  off[k] <= off[l - 1]
  <2>1. k \in 0..Len(ss) /\ l - 1 \in k..Len(ss)
    BY <1>1, <1>2
  <2> QED
    BY <2>1, OffsetsGrow
<1>3. PICK a : a = off[m - 1] + i
  OBVIOUS
<1>4. PICK b : b = off[n - 1] + j
  OBVIOUS
<1>5. a \in Nat /\ i \in Nat /\ off[m - 1] \in Nat /\ off[m] \in Nat /\ off[m - 1] < a /\ a <= off[m]
  BY <1>3, PlaceInList, Zenon
<1>6. b \in Nat /\ j \in Nat /\ off[n - 1] \in Nat /\ off[n] \in Nat /\ off[n - 1] < b /\ b <= off[n]
  BY <1>4, PlaceInList, Zenon
<1>7. a = b
  BY <1>3, <1>4
<1>8. ~(m < n) /\ ~(n < m)
  <2>1. \A x, y, z \in Nat : x <= y /\ y < z => ~(z <= x)
    OBVIOUS
  <2>2. ~(m < n)
    BY <1>2, <1>5, <1>6, <1>7, <2>1, Zenon
  <2>3. ~(n < m)
    BY <1>2, <1>5, <1>6, <1>7, <2>1, Zenon
  <2> QED
    BY <2>2, <2>3
<1>9. m = n
  BY <1>1, <1>8
<1>10. \A x, y, z \in Nat : x + y = x + z => y = z
  OBVIOUS
<1>11. off[m - 1] + i = off[m - 1] + j
  <2>1. off[m - 1] = off[n - 1]
    BY <1>9
  <2>2. off[m - 1] + i = off[n - 1] + j
    BY <1>3, <1>4, <1>7, Zenon
  <2> QED
    BY <2>1, <2>2, Zenon
<1> QED
  BY <1>5, <1>6, <1>9, <1>10, <1>11, Zenon

-----------------------------------------------------------------------------
(* The order of a walk of the queries (InOrder), query by query.           *)

\* visits, for the queries 1..N: what a walk of each goes through.
IsWalk(V, N) ==
  /\ N \in Nat \ {0}
  /\ V \in [1..N -> Seq(0..N)]
  /\ \A i \in 1..N : \A k \in 1..Len(V[i]) : V[i][k] = 0 \/ V[i][k] >= i
  /\ \A i \in 1..N : \E k \in 1..Len(V[i]) : V[i][k] = i
  /\ \A i \in 1..N : \A k, l \in 1..Len(V[i]) : V[i][k] = V[i][l] /\ V[i][k] # 0 => k = l
  /\ \A h, i \in 1..N : h # i => \A k \in 1..Len(V[h]), l \in 1..Len(V[i]) :
       V[h][k] = V[i][l] /\ V[h][k] # 0 => V[h][k] = h \/ V[i][l] = i
  /\ \A j \in 2..N : \E i \in 1..N : \E k \in 1..Len(V[i]) : V[i][k] = j /\ i # j

\* What a walk of query i adds to the order at its k-th place: the query, nothing
\* for the name of a CTE, or the order of the query below.
Piece(V, f, i, k) ==
  IF V[i][k] = i THEN <<i>> ELSE IF V[i][k] = 0 THEN <<>> ELSE f[V[i][k]]

\* All it adds, place by place.
Pieces(V, f, i) == [k \in 1..Len(V[i]) |-> Piece(V, f, i, k)]

\* f gives for every query the order a walk of it goes through.
IsOrder(V, N, f) ==
  f \in [1..N -> Seq(1..N)] /\ \A i \in 1..N : f[i] = FlattenSeq(Pieces(V, f, i))

\* What is at the places of a walk: below a query are later ones.
LEMMA VisitsType ==
  ASSUME NEW V, NEW N, IsWalk(V, N), NEW i \in 1..N
  PROVE  /\ Len(V[i]) \in Nat /\ V[i] \in Seq(0..N) /\ DOMAIN V[i] = 1..Len(V[i])
         /\ \A k \in 1..Len(V[i]) : V[i][k] \notin {0, i} => V[i][k] \in (i + 1)..N
<1>1. V[i] \in Seq(0..N) /\ N \in Nat
  BY DEF IsWalk
<1>2. Len(V[i]) \in Nat /\ DOMAIN V[i] = 1..Len(V[i]) /\ \A k \in 1..Len(V[i]) : V[i][k] \in 0..N
  BY <1>1, LenProperties, ElementOfSeq
<1>3. ASSUME NEW k \in 1..Len(V[i]), V[i][k] \notin {0, i} PROVE V[i][k] \in (i + 1)..N
  <2>1. V[i][k] >= i
    BY <1>3 DEF IsWalk
  <2> QED
    BY <1>1, <1>2, <1>3, <2>1
<1> QED
  BY <1>1, <1>2, <1>3

\* When the orders of the queries below i are lists, so is what i adds.
LEMMA PiecesType ==
  ASSUME NEW V, NEW N, IsWalk(V, N), NEW i \in 1..N, NEW f, NEW S, i \in S,
         \A k \in 1..Len(V[i]) : V[i][k] \notin {0, i} => f[V[i][k]] \in Seq(S)
  PROVE  /\ Pieces(V, f, i) \in Seq(Seq(S)) /\ Len(Pieces(V, f, i)) = Len(V[i])
         /\ FlattenSeq(Pieces(V, f, i)) \in Seq(S)
<1>1. Len(V[i]) \in Nat
  BY VisitsType
<1>2. <<i>> \in Seq(S) /\ <<>> \in Seq(S)
  OBVIOUS
<1>3. \A k \in 1..Len(V[i]) : Piece(V, f, i, k) \in Seq(S)
  BY <1>2 DEF Piece
<1>4. Pieces(V, f, i) \in Seq(Seq(S)) /\ Len(Pieces(V, f, i)) = Len(V[i])
  BY <1>1, <1>3, IsASeq DEF Pieces
<1> QED
  BY <1>4, Flattened

\* The orders of the queries are there: the last one first.
LEMMA OrderExists ==
  ASSUME NEW V, NEW N, IsWalk(V, N)
  PROVE  \E f : IsOrder(V, N, f)
<1> DEFINE From(m) == \E f \in [m..N -> Seq(1..N)] : \A i \in m..N : f[i] = FlattenSeq(Pieces(V, f, i))
           Bad == {d \in 0..(N - 1) : ~From(N - d)}
<1>1. N \in Nat \ {0}
  BY DEF IsWalk
<1>2. Bad = {}
  <2> SUFFICES ASSUME Bad # {} PROVE FALSE
    OBVIOUS
  <2>1. Bad \in SUBSET Nat
    <3> HIDE DEF From
    <3> QED
      BY <1>1
  <2>2. PICK d \in Bad : \A k \in Bad : d <= k
    <3> HIDE DEF Bad
    <3> QED
      BY <2>1, LeastElement
  <2>3. d \in 0..(N - 1) /\ N - d \in 1..N /\ ~From(N - d)
    <3> HIDE DEF From
    <3> QED
      BY <1>1, <2>2
  <2>4. PICK m \in 1..N : m = N - d
    BY <2>3
  <2>5. m # N => From(m + 1)
    <3> HIDE DEF From
    <3> SUFFICES ASSUME m # N PROVE From(m + 1)
      OBVIOUS
    <3>1. d - 1 \in 0..(N - 1) /\ ~(d <= d - 1) /\ N - (d - 1) = m + 1
      BY <1>1, <2>3, <2>4
    <3>2. d - 1 \notin Bad
      <4> HIDE DEF Bad
      <4> QED
        BY <2>2, <3>1
    <3> QED
      BY <3>1, <3>2
  <2>6. \E f \in [(m + 1)..N -> Seq(1..N)] : \A i \in (m + 1)..N : f[i] = FlattenSeq(Pieces(V, f, i))
    <3>1. CASE m = N
      <4>1. (m + 1)..N = {}
        BY <1>1, <3>1
      <4> DEFINE f == [i \in (m + 1)..N |-> <<>>]
      <4>2. f \in [(m + 1)..N -> Seq(1..N)]
        BY <4>1
      <4> HIDE DEF f
      <4> QED
        BY <4>1, <4>2
    <3> QED
      BY <2>5, <3>1
  <2>7. PICK f \in [(m + 1)..N -> Seq(1..N)] : \A i \in (m + 1)..N : f[i] = FlattenSeq(Pieces(V, f, i))
    BY <2>6
  <2>8. FlattenSeq(Pieces(V, f, m)) \in Seq(1..N)
    <3>1. \A k \in 1..Len(V[m]) : V[m][k] \notin {0, m} => f[V[m][k]] \in Seq(1..N)
      BY <2>7, VisitsType
    <3> QED
      BY <3>1, PiecesType
  <2> DEFINE g == [i \in m..N |-> IF i = m THEN FlattenSeq(Pieces(V, f, m)) ELSE f[i]]
  <2>9. m \in m..N /\ \A i \in m..N : i # m => i \in (m + 1)..N
    BY <1>1
  <2>10. g \in [m..N -> Seq(1..N)] /\ g[m] = FlattenSeq(Pieces(V, f, m)) /\ \A i \in (m + 1)..N : g[i] = f[i]
    <3>1. \A i \in (m + 1)..N : i \in m..N /\ i # m
      BY <1>1
    <3> QED
      BY <2>7, <2>8, <2>9, <3>1
  <2> HIDE DEF g
  <2>11. \A i \in m..N : Pieces(V, g, i) = Pieces(V, f, i)
    <3> SUFFICES ASSUME NEW i \in m..N, NEW k \in 1..Len(V[i]) PROVE Piece(V, g, i, k) = Piece(V, f, i, k)
      BY DEF Pieces
    <3>1. i \in 1..N
      BY <1>1
    <3>2. V[i][k] \notin {0, i} => V[i][k] \in (i + 1)..N
      BY <3>1, VisitsType
    <3>3. V[i][k] \notin {0, i} => V[i][k] \in (m + 1)..N
      BY <1>1, <3>1, <3>2
    <3> QED
      BY <2>10, <3>3 DEF Piece
  <2>12. \A i \in m..N : g[i] = FlattenSeq(Pieces(V, g, i))
    BY <2>7, <2>9, <2>10, <2>11
  <2>13. From(m)
    BY <2>10, <2>12
  <2> QED
    BY <2>3, <2>4, <2>13
<1>3. From(1)
  <2> HIDE DEF From
  <2>1. N - 1 \in 0..(N - 1) /\ N - (N - 1) = 1
    BY <1>1
  <2>2. N - 1 \notin Bad
    <3> HIDE DEF Bad
    <3> QED
      BY <1>2
  <2> QED
    BY <2>1, <2>2
<1> QED
  BY <1>3 DEF IsOrder

\* InOrder takes such an order, the one of the first query: the recursive function
\* of its definition exists.
LEMMA InOrderIsOne ==
  ASSUME NEW V, NEW N, IsWalk(V, N)
  PROVE  \E f : IsOrder(V, N, f) /\ InOrder(V) = f[1]
<1> DEFINE G(f) == [i \in DOMAIN V |->
                      FlattenSeq([k \in DOMAIN V[i] |->
                        IF V[i][k] = i THEN <<i>> ELSE IF V[i][k] = 0 THEN <<>> ELSE f[V[i][k]]])]
           h == CHOOSE f : f = G(f)
<1>1. DOMAIN V = 1..N
  BY DEF IsWalk
<1>2. ASSUME NEW f, NEW i \in 1..N
      PROVE  Pieces(V, f, i) = [k \in DOMAIN V[i] |->
                IF V[i][k] = i THEN <<i>> ELSE IF V[i][k] = 0 THEN <<>> ELSE f[V[i][k]]]
  BY VisitsType DEF Pieces, Piece
<1>3. \A f : G(f) = [i \in 1..N |-> FlattenSeq(Pieces(V, f, i))]
  BY <1>1, <1>2
<1>4. PICK f : IsOrder(V, N, f)
  BY OrderExists
<1>5. f = G(f)
  <2> HIDE DEF G
  <2> QED
    BY <1>3, <1>4 DEF IsOrder
<1>6. h = G(h)
  <2> HIDE DEF G
  <2> QED
    BY <1>5
<1>7. InOrder(V) = h[1]
  BY DEF InOrder
<1> HIDE DEF h
<1>8. h = [i \in 1..N |-> FlattenSeq(Pieces(V, h, i))]
  <2> HIDE DEF G
  <2> QED
    BY <1>3, <1>6
<1>9. \A i \in 1..N : h[i] \in Seq(1..N)
  <2> DEFINE Bad == {d \in 0..(N - 1) : h[N - d] \notin Seq(1..N)}
  <2>1. N \in Nat \ {0}
    BY DEF IsWalk
  <2>2. ASSUME Bad # {} PROVE FALSE
    <3>1. Bad \in SUBSET Nat
      BY <2>1
    <3>2. PICK d \in Bad : \A k \in Bad : d <= k
      <4> HIDE DEF Bad
      <4> QED
        BY <2>2, <3>1, LeastElement
    <3>3. d \in 0..(N - 1) /\ N - d \in 1..N
      BY <2>1
    <3>4. PICK m \in 1..N : m = N - d
      BY <3>3
    <3>5. ASSUME NEW j \in (m + 1)..N PROVE h[j] \in Seq(1..N)
      <4>1. N - j \in 0..(N - 1) /\ ~(d <= N - j) /\ N - (N - j) = j
        BY <2>1, <3>3, <3>4
      <4>2. N - j \notin Bad
        <5> HIDE DEF Bad
        <5> QED
          BY <3>2, <4>1
      <4> QED
        BY <4>1, <4>2
    <3>6. \A k \in 1..Len(V[m]) : V[m][k] \notin {0, m} => h[V[m][k]] \in Seq(1..N)
      BY <3>5, VisitsType
    <3>7. h[m] \in Seq(1..N)
      <4>1. FlattenSeq(Pieces(V, h, m)) \in Seq(1..N)
        BY <3>6, PiecesType
      <4>2. h[m] = FlattenSeq(Pieces(V, h, m))
        BY <1>8
      <4> QED
        BY <4>1, <4>2
    <3> QED
      BY <3>2, <3>4, <3>7
  <2>3. ASSUME NEW i \in 1..N PROVE h[i] \in Seq(1..N)
    <3>1. N - i \in 0..(N - 1) /\ N - (N - i) = i
      BY <2>1
    <3>2. N - i \notin Bad
      <4> HIDE DEF Bad
      <4> QED
        BY <2>2
    <3> QED
      BY <3>1, <3>2
  <2> QED
    BY <2>3
<1>10. IsOrder(V, N, h)
  <2>1. \A i \in 1..N : h[i] = FlattenSeq(Pieces(V, h, i))
    BY <1>8
  <2>2. DOMAIN h = 1..N /\ h = [i \in DOMAIN h |-> h[i]]
    BY <1>8
  <2> QED
    BY <1>9, <2>1, <2>2 DEF IsOrder
<1> QED
  BY <1>7, <1>10

-----------------------------------------------------------------------------
(* What an order goes through.                                             *)

\* What a list goes through.
Rng(s) == {s[k] : k \in 1..Len(s)}

\* A query is below one other query, in one place.
LEMMA OneAbove ==
  ASSUME NEW V, NEW N, IsWalk(V, N), NEW h \in 1..N, NEW k \in 1..Len(V[h]),
         NEW i \in 1..N, NEW l \in 1..Len(V[i]),
         V[h][k] = V[i][l], V[h][k] \notin {0, h}, V[i][l] # i
  PROVE  h = i /\ k = l
<1>1. \A g, j \in 1..N : g # j => \A m \in 1..Len(V[g]), n \in 1..Len(V[j]) :
        V[g][m] = V[j][n] /\ V[g][m] # 0 => V[g][m] = g \/ V[j][n] = j
  BY Zenon DEF IsWalk
<1>2. \A j \in 1..N : \A m, n \in 1..Len(V[j]) : V[j][m] = V[j][n] /\ V[j][m] # 0 => m = n
  BY Zenon DEF IsWalk
<1>3. V[h][k] # 0 /\ V[h][k] # h
  OBVIOUS
<1>4. h = i
  BY <1>1, <1>3, Zenon
<1> QED
  BY <1>2, <1>3, <1>4, ZenonT(60)

\* What an order goes through is the query, and what the orders below it go through.
LEMMA RngOrder ==
  ASSUME NEW V, NEW N, IsWalk(V, N), NEW f, IsOrder(V, N, f), NEW i \in 1..N
  PROVE  /\ i \in Rng(f[i])
         /\ \A k \in 1..Len(V[i]) : V[i][k] \notin {0, i} => Rng(f[V[i][k]]) \subseteq Rng(f[i])
         /\ \A v \in Rng(f[i]) : v # i =>
              \E k \in 1..Len(V[i]) : V[i][k] \notin {0, i} /\ v \in Rng(f[V[i][k]])
<1> DEFINE ss == Pieces(V, f, i)
<1>1. \A k \in 1..Len(V[i]) : V[i][k] \notin {0, i} => f[V[i][k]] \in Seq(1..N)
  BY VisitsType DEF IsOrder
<1>2. ss \in Seq(Seq(1..N)) /\ Len(ss) = Len(V[i])
  BY <1>1, PiecesType
<1>3. \A k \in 1..Len(V[i]) : ss[k] = Piece(V, f, i, k)
  BY DEF Pieces
<1>4. f[i] = FlattenSeq(ss)
  BY DEF IsOrder
<1> HIDE DEF ss
<1>5. PICK off : Offsets(off, ss, f[i])
  BY <1>2, <1>4, Flattened
<1>6. ASSUME NEW k \in 1..Len(ss), NEW j \in 1..Len(ss[k]) PROVE ss[k][j] \in Rng(f[i])
  <2>1. off[k - 1] \in Nat /\ off[k] \in Nat /\ off[k - 1] + j \in Nat
        /\ off[k - 1] < off[k - 1] + j /\ off[k - 1] + j <= off[k]
    BY <1>2, <1>5, PlaceInList, Zenon
  <2>2. off[k] <= Len(f[i])
    <3>1. Len(ss) \in Nat
      BY <1>2, LenProperties
    <3>2. k \in 0..Len(ss) /\ Len(ss) \in k..Len(ss)
      BY <3>1
    <3>3. off[k] <= off[Len(ss)]
      BY <1>2, <1>5, <3>2, OffsetsGrow, Zenon
    <3> QED
      BY <1>5, <3>3 DEF Offsets
  <2>3. Len(f[i]) \in Nat
    BY LenProperties DEF IsOrder
  <2>4. PICK p : p = off[k - 1] + j
    OBVIOUS
  <2>5. p \in 1..Len(f[i])
    <3>1. \A a, b, c, d \in Nat : a < b /\ b <= c /\ c <= d => b \in 1..d
      OBVIOUS
    <3> QED
      BY <2>1, <2>2, <2>3, <2>4, <3>1, Zenon
  <2>6. f[i][p] = ss[k][j]
    BY <1>5, <2>4, Zenon DEF Offsets
  <2> QED
    BY <2>5, <2>6 DEF Rng
<1>7. ASSUME NEW k \in 1..Len(V[i]) PROVE Rng(Piece(V, f, i, k)) \subseteq Rng(f[i])
  <2>1. k \in 1..Len(ss) /\ ss[k] = Piece(V, f, i, k)
    BY <1>2, <1>3
  <2>2. \A j \in 1..Len(ss[k]) : ss[k][j] \in Rng(f[i])
    BY <1>6, <2>1
  <2>3. Rng(ss[k]) \subseteq Rng(f[i])
    BY <2>2, Zenon DEF Rng
  <2> QED
    BY <2>1, <2>3
<1>8. i \in Rng(f[i])
  <2>1. PICK k \in 1..Len(V[i]) : V[i][k] = i
    BY DEF IsWalk
  <2>2. Piece(V, f, i, k) = <<i>>
    BY <2>1 DEF Piece
  <2>3. i \in Rng(<<i>>)
    <3>1. Len(<<i>>) = 1 /\ <<i>>[1] = i /\ 1 \in 1..1
      OBVIOUS
    <3> QED
      BY <3>1 DEF Rng
  <2> QED
    BY <1>7, <2>2, <2>3
<1>9. ASSUME NEW k \in 1..Len(V[i]), V[i][k] \notin {0, i} PROVE Rng(f[V[i][k]]) \subseteq Rng(f[i])
  <2>1. Piece(V, f, i, k) = f[V[i][k]]
    BY <1>9 DEF Piece
  <2> QED
    BY <1>7, <2>1
<1>10. ASSUME NEW v \in Rng(f[i]), v # i
       PROVE  \E k \in 1..Len(V[i]) : V[i][k] \notin {0, i} /\ v \in Rng(f[V[i][k]])
  <2>1. PICK p \in 1..Len(f[i]) : f[i][p] = v
    BY DEF Rng
  <2>a. PICK k \in 1..Len(ss) : \E j \in 1..Len(ss[k]) : p = off[k - 1] + j
    <3>1. Lists(1..N, ss)
      BY <1>2 DEF Lists
    <3>2. Offsets(off, ss, f[i]) /\ p \in 1..Len(f[i])
      BY <1>5
    <3> QED
      BY <3>1, <3>2, FlattenedPlace
  <2>2. PICK j \in 1..Len(ss[k]) : p = off[k - 1] + j
    BY <2>a
  <2>3. v = ss[k][j]
    BY <1>5, <2>1, <2>2, Zenon DEF Offsets
  <2>4. k \in 1..Len(V[i]) /\ ss[k] = Piece(V, f, i, k)
    BY <1>2, <1>3
  <2>5. V[i][k] # i
    <3> SUFFICES ASSUME V[i][k] = i PROVE FALSE
      OBVIOUS
    <3>1. ss[k] = <<i>>
      BY <2>4 DEF Piece
    <3>2. Len(<<i>>) = 1
      OBVIOUS
    <3>3. j = 1
      BY <3>1, <3>2
    <3>4. <<i>>[1] = i
      OBVIOUS
    <3> QED
      BY <1>10, <2>3, <3>1, <3>3, <3>4
  <2>6. V[i][k] # 0
    <3> SUFFICES ASSUME V[i][k] = 0 PROVE FALSE
      OBVIOUS
    <3>1. ss[k] = <<>>
      BY <2>4, <2>5 DEF Piece
    <3>2. Len(<<>>) = 0 /\ 1..0 = {}
      OBVIOUS
    <3> QED
      BY <3>1, <3>2
  <2>7. ss[k] = f[V[i][k]]
    BY <2>4, <2>5, <2>6 DEF Piece
  <2>8. v \in Rng(f[V[i][k]])
    BY <2>3, <2>7 DEF Rng
  <2> QED
    BY <2>4, <2>5, <2>6, <2>8
<1> QED
  BY <1>8, <1>9, <1>10

\* A property of all queries that each has when those below it have it.
LEMMA FromBelow ==
  ASSUME NEW V, NEW N, IsWalk(V, N), NEW H \in SUBSET (1..N),
         \A i \in 1..N : (\A k \in 1..Len(V[i]) : V[i][k] \notin {0, i} => V[i][k] \in H) => i \in H
  PROVE  H = 1..N
<1> DEFINE Bad == {d \in 0..(N - 1) : N - d \notin H}
<1>1. N \in Nat \ {0}
  BY DEF IsWalk
<1>2. ASSUME Bad # {} PROVE FALSE
  <2>1. Bad \in SUBSET Nat
    BY <1>1
  <2>2. PICK d \in Bad : \A k \in Bad : d <= k
    <3> HIDE DEF Bad
    <3> QED
      BY <1>2, <2>1, LeastElement
  <2>3. d \in 0..(N - 1) /\ N - d \in 1..N
    BY <1>1
  <2>4. PICK m \in 1..N : m = N - d
    BY <2>3
  <2>5. ASSUME NEW j \in (m + 1)..N PROVE j \in H
    <3>1. N - j \in 0..(N - 1) /\ ~(d <= N - j) /\ N - (N - j) = j
      BY <1>1, <2>3, <2>4
    <3>2. N - j \notin Bad
      <4> HIDE DEF Bad
      <4> QED
        BY <2>2, <3>1
    <3> QED
      BY <3>1, <3>2
  <2>6. \A k \in 1..Len(V[m]) : V[m][k] \notin {0, m} => V[m][k] \in H
    BY <2>5, VisitsType
  <2> QED
    BY <2>2, <2>4, <2>6
<1>3. ASSUME NEW i \in 1..N PROVE i \in H
  <2>1. N - i \in 0..(N - 1) /\ N - (N - i) = i
    BY <1>1
  <2>2. N - i \notin Bad
    <3> HIDE DEF Bad
    <3> QED
      BY <1>2
  <2> QED
    BY <2>1, <2>2
<1> QED
  BY <1>3

\* An order goes through no query before the one it starts from.
LEMMA RngAbove ==
  ASSUME NEW V, NEW N, IsWalk(V, N), NEW f, IsOrder(V, N, f)
  PROVE  \A i \in 1..N : Rng(f[i]) \subseteq i..N
<1> DEFINE H == {i \in 1..N : Rng(f[i]) \subseteq i..N}
<1>1. N \in Nat
  BY DEF IsWalk
<1>2. ASSUME NEW i \in 1..N, \A k \in 1..Len(V[i]) : V[i][k] \notin {0, i} => V[i][k] \in H
      PROVE  i \in H
  <2>1. ASSUME NEW v \in Rng(f[i]) PROVE v \in i..N
    <3>1. CASE v = i
      BY <1>1, <3>1
    <3>2. CASE v # i
      <4>1. PICK k \in 1..Len(V[i]) : V[i][k] \notin {0, i} /\ v \in Rng(f[V[i][k]])
        BY <3>2, RngOrder
      <4>2. PICK j : j = V[i][k]
        OBVIOUS
      <4>3. j \in (i + 1)..N /\ v \in j..N
        BY <1>2, <4>1, <4>2, VisitsType
      <4> QED
        BY <1>1, <4>3
    <3> QED
      BY <3>1, <3>2
  <2> QED
    BY <2>1
<1>3. H = 1..N
  <2>1. H \in SUBSET (1..N)
    OBVIOUS
  <2> HIDE DEF H
  <2> QED
    BY <1>2, <2>1, FromBelow
<1> QED
  BY <1>3

\* With a query an order goes through the queries below it,
LEMMA RngDown ==
  ASSUME NEW V, NEW N, IsWalk(V, N), NEW f, IsOrder(V, N, f), NEW i \in 1..N, NEW k \in 1..Len(V[i]),
         V[i][k] \notin {0, i}
  PROVE  \A r \in 1..N : i \in Rng(f[r]) => V[i][k] \in Rng(f[r])
<1> DEFINE H == {r \in 1..N : i \in Rng(f[r]) => V[i][k] \in Rng(f[r])}
<1>1. ASSUME NEW r \in 1..N, \A l \in 1..Len(V[r]) : V[r][l] \notin {0, r} => V[r][l] \in H
      PROVE  r \in H
  <2> SUFFICES ASSUME i \in Rng(f[r]) PROVE V[i][k] \in Rng(f[r])
    OBVIOUS
  <2>1. CASE i = r
    <3>1. V[i][k] \in 1..N
      <4>1. V[i][k] \in (i + 1)..N /\ N \in Nat
        BY VisitsType DEF IsWalk
      <4> QED
        BY <4>1
    <3>2. V[i][k] \in Rng(f[V[i][k]])
      BY <3>1, RngOrder
    <3> QED
      BY <2>1, <3>2, RngOrder
  <2>2. CASE i # r
    <3>1. PICK l \in 1..Len(V[r]) : V[r][l] \notin {0, r} /\ i \in Rng(f[V[r][l]])
      BY <2>2, RngOrder
    <3>2. V[i][k] \in Rng(f[V[r][l]])
      BY <1>1, <3>1
    <3> QED
      BY <3>1, <3>2, RngOrder
  <2> QED
    BY <2>1, <2>2
<1>2. H = 1..N
  <2>1. H \in SUBSET (1..N)
    OBVIOUS
  <2> HIDE DEF H
  <2> QED
    BY <1>1, <2>1, FromBelow
<1> QED
  BY <1>2

\* and with a query below another the other one, unless it starts there.
LEMMA RngUp ==
  ASSUME NEW V, NEW N, IsWalk(V, N), NEW f, IsOrder(V, N, f), NEW i \in 1..N, NEW k \in 1..Len(V[i]),
         V[i][k] \notin {0, i}
  PROVE  \A r \in 1..N : V[i][k] \in Rng(f[r]) /\ V[i][k] # r => i \in Rng(f[r])
<1> DEFINE v == V[i][k]
           H == {r \in 1..N : v \in Rng(f[r]) /\ v # r => i \in Rng(f[r])}
<1>a. \A r \in 1..N : \A l \in 1..Len(V[r]) :
        V[r][l] = V[i][k] /\ V[r][l] \notin {0, r} /\ V[i][k] # i => r = i
  <2> SUFFICES ASSUME NEW r \in 1..N, NEW l \in 1..Len(V[r]),
                      V[r][l] = V[i][k], V[r][l] \notin {0, r}, V[i][k] # i
               PROVE  r = i
    OBVIOUS
  <2> HIDE DEF v, H
  <2> QED
    BY OneAbove
<1>1. ASSUME NEW r \in 1..N, \A l \in 1..Len(V[r]) : V[r][l] \notin {0, r} => V[r][l] \in H
      PROVE  r \in H
  <2> SUFFICES ASSUME v \in Rng(f[r]), v # r PROVE i \in Rng(f[r])
    OBVIOUS
  <2>1. PICK l \in 1..Len(V[r]) : V[r][l] \notin {0, r} /\ v \in Rng(f[V[r][l]])
    BY RngOrder
  <2>2. CASE v = V[r][l]
    <3>1. r = i
      <4>1. V[r][l] = V[i][k] /\ V[r][l] \notin {0, r} /\ V[i][k] # i
        BY <2>1, <2>2
      <4> HIDE DEF H, v
      <4> QED
        BY <1>a, <4>1, Zenon
    <3> QED
      BY <3>1, RngOrder
  <2>3. CASE v # V[r][l]
    <3>1. i \in Rng(f[V[r][l]])
      BY <1>1, <2>1, <2>3
    <3> QED
      BY <2>1, <3>1, RngOrder
  <2> QED
    BY <2>2, <2>3
<1>2. H = 1..N
  <2>1. H \in SUBSET (1..N)
    OBVIOUS
  <2> HIDE DEF H
  <2> QED
    BY <1>1, <2>1, FromBelow
<1> QED
  BY <1>2

\* Two queries below a third have nothing below them in common.
LEMMA RngApart ==
  ASSUME NEW V, NEW N, IsWalk(V, N), NEW f, IsOrder(V, N, f), NEW i \in 1..N,
         NEW k \in 1..Len(V[i]), NEW l \in 1..Len(V[i]), k # l,
         V[i][k] \notin {0, i}, V[i][l] \notin {0, i}
  PROVE  Rng(f[V[i][k]]) \intersect Rng(f[V[i][l]]) = {}
<1>1. N \in Nat \ {0}
  BY DEF IsWalk
<1>2. PICK c, d : c = V[i][k] /\ d = V[i][l]
  OBVIOUS
<1>3. c \in (i + 1)..N /\ d \in (i + 1)..N
  BY <1>2, VisitsType
<1>4. c # d
  BY <1>2, OneAbove
<1>5. c \in 1..N /\ d \in 1..N
  BY <1>1, <1>3
<1> DEFINE Both == Rng(f[c]) \intersect Rng(f[d])
<1>6. Both \subseteq c..N /\ Both \subseteq d..N
  BY <1>5, RngAbove
<1>7. ASSUME Both # {} PROVE FALSE
  <2>1. Both \in SUBSET Nat
    BY <1>1, <1>5, <1>6
  <2>2. PICK v \in Both : \A w \in Both : v <= w
    <3> HIDE DEF Both
    <3> QED
      BY <1>7, <2>1, LeastElement
  <2>3. v \in c..N /\ v \in d..N /\ v \in 2..N
    BY <1>1, <1>3, <1>6, <2>2
  <2>a. PICK h \in 1..N : \E m \in 1..Len(V[h]) : V[h][m] = v /\ h # v
    BY <2>3 DEF IsWalk
  <2>4. PICK m \in 1..Len(V[h]) : V[h][m] = v /\ h # v
    BY <2>a
  <2>5. V[h][m] \notin {0, h}
    BY <2>3, <2>4
  <2>6. v \in (h + 1)..N
    BY <2>4, <2>5, VisitsType
  <2>7. \A r \in 1..N : v \in Rng(f[r]) /\ v # r => h \in Rng(f[r])
    BY <2>4, <2>5, RngUp
  <2>8. ASSUME v \in {c, d} PROVE h = i
    <3>1. PICK n \in 1..Len(V[i]) : V[i][n] = v /\ V[i][n] \notin {0, i}
      BY <1>2, <2>8
    <3>2. V[h][m] = V[i][n] /\ V[i][n] # i
      BY <2>4, <3>1
    <3> HIDE DEF Both
    <3> QED
      BY <2>5, <3>2, OneAbove
  <2>9. i \notin c..N /\ i \notin d..N
    BY <1>1, <1>3
  <2>10. Rng(f[c]) \subseteq c..N /\ Rng(f[d]) \subseteq d..N
    BY <1>5, RngAbove
  <2>11. CASE v = c
    <3>1. h \in Rng(f[d])
      BY <1>4, <1>5, <2>2, <2>7, <2>11
    <3> QED
      BY <2>8, <2>9, <2>10, <2>11, <3>1
  <2>12. CASE v = d
    <3>1. h \in Rng(f[c])
      BY <1>4, <1>5, <2>2, <2>7, <2>12
    <3> QED
      BY <2>8, <2>9, <2>10, <2>12, <3>1
  <2>13. CASE v # c /\ v # d
    <3>1. h \in Both
      BY <1>5, <2>2, <2>7, <2>13
    <3>2. ~(v <= h)
      BY <1>1, <2>6
    <3> HIDE DEF Both
    <3> QED
      BY <2>2, <3>1, <3>2
  <2> QED
    BY <2>11, <2>12, <2>13
<1> QED
  BY <1>2, <1>7

\* Nothing is in a list twice.
Distinct(s) == \A p, q \in 1..Len(s) : s[p] = s[q] => p = q

\* An order goes through no query twice,
LEMMA OrderDistinct ==
  ASSUME NEW V, NEW N, IsWalk(V, N), NEW f, IsOrder(V, N, f)
  PROVE  \A i \in 1..N : Distinct(f[i])
<1> DEFINE H == {i \in 1..N : Distinct(f[i])}
<1>1. ASSUME NEW i \in 1..N, \A k \in 1..Len(V[i]) : V[i][k] \notin {0, i} => V[i][k] \in H
      PROVE  i \in H
  <2> DEFINE ss == Pieces(V, f, i)
  <2>1. \A k \in 1..Len(V[i]) : V[i][k] \notin {0, i} => f[V[i][k]] \in Seq(1..N)
    BY VisitsType DEF IsOrder
  <2>2. ss \in Seq(Seq(1..N)) /\ Len(ss) = Len(V[i])
    BY <2>1, PiecesType
  <2>3. \A k \in 1..Len(V[i]) : ss[k] = Piece(V, f, i, k)
    BY DEF Pieces
  <2>4. f[i] = FlattenSeq(ss)
    BY DEF IsOrder
  <2> HIDE DEF ss
  <2>5. PICK off : Offsets(off, ss, f[i])
    BY <2>2, <2>4, Flattened
  <2>6. ASSUME NEW p \in 1..Len(f[i])
        PROVE  \E n \in 1..Len(ss) : \E j \in 1..Len(ss[n]) : p = off[n - 1] + j /\ f[i][p] = ss[n][j]
    <3>2. \E n \in 1..Len(ss) : \E j \in 1..Len(ss[n]) : p = off[n - 1] + j
      <4>1. Lists(1..N, ss)
        BY <2>2 DEF Lists
      <4>2. Offsets(off, ss, f[i]) /\ p \in 1..Len(f[i])
        BY <2>5
      <4> QED
        BY <4>1, <4>2, FlattenedPlace
    <3>3. \A n \in 1..Len(ss) : \A j \in 1..Len(ss[n]) : f[i][off[n - 1] + j] = ss[n][j]
      BY <2>5, Zenon DEF Offsets
    <3>4. PICK n \in 1..Len(ss) : \E j \in 1..Len(ss[n]) : p = off[n - 1] + j
      BY <3>2
    <3>5. PICK j \in 1..Len(ss[n]) : p = off[n - 1] + j
      BY <3>4
    <3>6. f[i][p] = ss[n][j]
      BY <3>3, <3>5, Zenon
    <3> QED
      BY <3>5, <3>6, Zenon
  <2>7. ASSUME NEW n \in 1..Len(ss), NEW j \in 1..Len(ss[n])
        PROVE  V[i][n] # 0 /\ IF V[i][n] = i THEN j = 1 /\ ss[n][j] = i
                              ELSE /\ V[i][n] \in 1..N /\ i \notin Rng(f[V[i][n]])
                                   /\ ss[n] = f[V[i][n]] /\ ss[n][j] \in Rng(f[V[i][n]])
    <3>1. n \in 1..Len(V[i]) /\ ss[n] = Piece(V, f, i, n)
      BY <2>2, <2>3
    <3>2. CASE V[i][n] = i
      <4>1. ss[n] = <<i>>
        BY <3>1, <3>2 DEF Piece
      <4>2. Len(<<i>>) = 1 /\ <<i>>[1] = i
        OBVIOUS
      <4>3. j = 1
        BY <4>1, <4>2
      <4>4. i # 0
        OBVIOUS
      <4> QED
        BY <3>2, <4>1, <4>2, <4>3, <4>4
    <3>3. CASE V[i][n] # i
      <4>1. V[i][n] # 0
        <5> SUFFICES ASSUME V[i][n] = 0 PROVE FALSE
          OBVIOUS
        <5>1. ss[n] = <<>>
          BY <3>1, <3>3 DEF Piece
        <5>2. Len(<<>>) = 0 /\ 1..0 = {}
          OBVIOUS
        <5> QED
          BY <5>1, <5>2
      <4>2. ss[n] = f[V[i][n]]
        BY <3>1, <3>3, <4>1 DEF Piece
      <4>3. V[i][n] \in (i + 1)..N
        BY <3>1, <3>3, <4>1, VisitsType
      <4>4. V[i][n] \in 1..N /\ i \notin V[i][n]..N
        BY <4>3
      <4>5. i \notin Rng(f[V[i][n]])
        BY <4>4, RngAbove
      <4>6. ss[n][j] \in Rng(f[V[i][n]])
        BY <4>2 DEF Rng
      <4> QED
        BY <3>3, <4>1, <4>2, <4>4, <4>5, <4>6
    <3> QED
      BY <3>2, <3>3
  <2>8. ASSUME NEW p \in 1..Len(f[i]), NEW q \in 1..Len(f[i]), f[i][p] = f[i][q] PROVE p = q
    <3>1. PICK m \in 1..Len(ss) : \E j \in 1..Len(ss[m]) : p = off[m - 1] + j /\ f[i][p] = ss[m][j]
      BY <2>6
    <3>2. PICK a \in 1..Len(ss[m]) : p = off[m - 1] + a /\ f[i][p] = ss[m][a]
      BY <3>1
    <3>3. PICK n \in 1..Len(ss) : \E j \in 1..Len(ss[n]) : q = off[n - 1] + j /\ f[i][q] = ss[n][j]
      BY <2>6
    <3>4. PICK b \in 1..Len(ss[n]) : q = off[n - 1] + b /\ f[i][q] = ss[n][b]
      BY <3>3
    <3>5. ss[m][a] = ss[n][b]
      BY <2>8, <3>2, <3>4
    <3>6. m \in 1..Len(V[i]) /\ n \in 1..Len(V[i])
      BY <2>2
    <3>7. m = n
      <4>1. CASE V[i][m] = i /\ V[i][n] = i
        <5>1. \A j \in 1..N : \A k, l \in 1..Len(V[j]) : V[j][k] = V[j][l] /\ V[j][k] # 0 => k = l
          BY Zenon DEF IsWalk
        <5> QED
          BY <2>7, <3>6, <4>1, <5>1
      <4>2. CASE V[i][m] = i /\ V[i][n] # i
        BY <2>7, <3>5, <4>2
      <4>3. CASE V[i][m] # i /\ V[i][n] = i
        BY <2>7, <3>5, <4>3
      <4>4. CASE V[i][m] # i /\ V[i][n] # i
        <5> SUFFICES ASSUME m # n PROVE FALSE
          OBVIOUS
        <5>1. V[i][m] \notin {0, i} /\ V[i][n] \notin {0, i}
          BY <2>7, <4>4
        <5>2. ss[m][a] \in Rng(f[V[i][m]]) /\ ss[m][a] \in Rng(f[V[i][n]])
          BY <2>7, <3>5, <4>4
        <5>3. \A k, l \in 1..Len(V[i]) : k # l /\ V[i][k] \notin {0, i} /\ V[i][l] \notin {0, i}
                => Rng(f[V[i][k]]) \intersect Rng(f[V[i][l]]) = {}
          BY RngApart
        <5> QED
          BY <3>6, <5>1, <5>2, <5>3
      <4> QED
        BY <4>1, <4>2, <4>3, <4>4
    <3>8. a = b
      <4>1. CASE V[i][m] = i
        <5>1. a = 1 /\ b = 1
          BY <2>7, <3>7, <4>1
        <5> QED
          BY <5>1
      <4>2. CASE V[i][m] # i
        <5>1. V[i][m] \in H /\ ss[m] = f[V[i][m]]
          <6>1. V[i][m] \notin {0, i} /\ ss[m] = f[V[i][m]]
            BY <2>7, <4>2
          <6> QED
            BY <1>1, <3>6, <6>1
        <5>2. Distinct(ss[m])
          BY <5>1
        <5> QED
          BY <3>5, <3>7, <5>2 DEF Distinct
      <4> QED
        BY <4>1, <4>2
    <3> QED
      BY <3>2, <3>4, <3>7, <3>8
  <2> QED
    BY <2>8 DEF Distinct
<1>2. H = 1..N
  <2>1. H \in SUBSET (1..N)
    OBVIOUS
  <2> HIDE DEF H
  <2> QED
    BY <1>1, <2>1, FromBelow
<1> QED
  BY <1>2

\* and the first one through all.
LEMMA OrderCovers ==
  ASSUME NEW V, NEW N, IsWalk(V, N), NEW f, IsOrder(V, N, f)
  PROVE  Rng(f[1]) = 1..N
<1> DEFINE Bad == (1..N) \ Rng(f[1])
<1>1. N \in Nat \ {0}
  BY DEF IsWalk
<1>2. ASSUME Bad # {} PROVE FALSE
  <2>1. PICK j \in Bad : \A k \in Bad : j <= k
    <3>1. Bad \in SUBSET Nat
      BY <1>1
    <3> HIDE DEF Bad
    <3> QED
      BY <1>2, <3>1, LeastElement
  <2>2. j # 1
    <3>1. 1 \in 1..N
      BY <1>1
    <3> QED
      BY <3>1, RngOrder
  <2>3. j \in 2..N
    BY <1>1, <2>2
  <2>4. PICK i \in 1..N : \E k \in 1..Len(V[i]) : V[i][k] = j /\ i # j
    <3>1. \A m \in 2..N : \E h \in 1..N : \E k \in 1..Len(V[h]) : V[h][k] = m /\ h # m
      BY Zenon DEF IsWalk
    <3> QED
      BY <2>3, <3>1
  <2>5. PICK k \in 1..Len(V[i]) : V[i][k] = j /\ i # j
    BY <2>4
  <2>6. V[i][k] \notin {0, i}
    BY <2>3, <2>5
  <2>7. j \in (i + 1)..N
    BY <2>5, <2>6, VisitsType
  <2>8. i \in Rng(f[1])
    <3>1. ~(j <= i)
      BY <1>1, <2>7
    <3> QED
      BY <2>1, <3>1
  <2>9. 1 \in 1..N
    BY <1>1
  <2>10. \A r \in 1..N : i \in Rng(f[r]) => V[i][k] \in Rng(f[r])
    BY <2>6, RngDown
  <2> QED
    BY <2>1, <2>5, <2>8, <2>9, <2>10
<1>3. Rng(f[1]) \subseteq 1..N
  <2>1. 1 \in 1..N
    BY <1>1
  <2> QED
    BY <2>1, RngAbove
<1> QED
  BY <1>2, <1>3

\* The walk goes through every query once.
LEMMA InOrderOnce ==
  ASSUME NEW V, NEW N, IsWalk(V, N)
  PROVE  InOrder(V) \in Seq(1..N) /\ Distinct(InOrder(V)) /\ Rng(InOrder(V)) = 1..N
<1>1. PICK f : IsOrder(V, N, f) /\ InOrder(V) = f[1]
  BY InOrderIsOne
<1>2. 1 \in 1..N
  <2>1. N \in Nat \ {0}
    BY DEF IsWalk
  <2> QED
    BY <2>1
<1>3. f[1] \in Seq(1..N)
  BY <1>1, <1>2 DEF IsOrder
<1>4. Distinct(f[1])
  BY <1>1, <1>2, OrderDistinct
<1>5. Rng(f[1]) = 1..N
  BY <1>1, OrderCovers
<1> QED
  BY <1>1, <1>3, <1>4, <1>5

-----------------------------------------------------------------------------
(* A statement is walked through every query once.                         *)

\* What both walks of a statement go through.
Visits(t) == [i \in DOMAIN t |-> t[i].ctes \o <<i>> \o t[i].prefetch]

\* A statement is a list of queries.
LEMMA StatementShape ==
  ASSUME NEW t, IsStatement(t)
  PROVE  /\ Len(t) \in Nat \ {0} /\ DOMAIN t = 1..Len(t) /\ 1 \in 1..Len(t)
         /\ \A i \in 1..Len(t) : t[i] \in Query
<1>1. t \in Seq(Query) /\ t # <<>>
  BY DEF IsStatement
<1>2. Len(t) \in Nat \ {0}
  BY <1>1, EmptySeq
<1>3. DOMAIN t = 1..Len(t) /\ \A i \in 1..Len(t) : t[i] \in Query
  BY <1>1, LenProperties, ElementOfSeq
<1> QED
  BY <1>2, <1>3

\* Below a query are its CTEs and its prefetches, in that order.
LEMMA BelowShape ==
  ASSUME NEW q \in Query
  PROVE  /\ q.ctes \in Seq(Nat \ {0}) /\ q.prefetch \in Seq(Nat)
         /\ Len(q.ctes) \in Nat /\ Len(q.prefetch) \in Nat
         /\ Below(q) \in Seq(Nat) /\ DOMAIN Below(q) = 1..(Len(q.ctes) + Len(q.prefetch))
         /\ \A k \in 1..Len(q.ctes) : Below(q)[k] = q.ctes[k]
         /\ \A k \in 1..Len(q.prefetch) : Below(q)[Len(q.ctes) + k] = q.prefetch[k]
<1>1. q.ctes \in Seq(Nat \ {0}) /\ q.prefetch \in Seq(Nat)
  BY DEF Query
<1>2. PICK c, p : c = q.ctes /\ p = q.prefetch
  OBVIOUS
<1>3. c \in Seq(Nat) /\ p \in Seq(Nat)
  <2>1. Nat \ {0} \subseteq Nat
    OBVIOUS
  <2>2. c \in Seq(Nat \ {0})
    BY <1>1, <1>2
  <2>3. c \in Seq(Nat)
    BY <2>1, <2>2, SeqMonotonic
  <2> QED
    BY <1>1, <1>2, <2>3
<1>4. Len(c) \in Nat /\ Len(p) \in Nat
  BY <1>3, LenProperties
<1>5. /\ c \o p \in Seq(Nat) /\ Len(c \o p) = Len(c) + Len(p)
      /\ \A k \in 1..(Len(c) + Len(p)) : (c \o p)[k] = IF k <= Len(c) THEN c[k] ELSE p[k - Len(c)]
  BY <1>3, ConcatProperties
<1>6. DOMAIN (c \o p) = 1..(Len(c) + Len(p))
  BY <1>5, LenProperties
<1>7. \A k \in 1..Len(c) : k \in 1..(Len(c) + Len(p)) /\ k <= Len(c)
  BY <1>4
<1>8. \A k \in 1..Len(p) : Len(c) + k \in 1..(Len(c) + Len(p)) /\ ~(Len(c) + k <= Len(c)) /\ (Len(c) + k) - Len(c) = k
  BY <1>4
<1>9. \A k \in 1..Len(c) : (c \o p)[k] = c[k]
  BY <1>5, <1>7
<1>10. \A k \in 1..Len(p) : (c \o p)[Len(c) + k] = p[k]
  BY <1>5, <1>8
<1>11. Below(q) = c \o p
  BY <1>2 DEF Below
<1> QED
  BY <1>1, <1>2, <1>4, <1>5, <1>6, <1>9, <1>10, <1>11

\* A walk goes through what is below a query, and in between through the query.
LEMMA VisitsShape ==
  ASSUME NEW t, IsStatement(t), NEW i \in 1..Len(t)
  PROVE  /\ Visits(t)[i] \in Seq(Nat)
         /\ Len(Visits(t)[i]) = Len(t[i].ctes) + 1 + Len(t[i].prefetch)
         /\ \A k \in 1..Len(Visits(t)[i]) :
              Visits(t)[i][k] = IF k <= Len(t[i].ctes) THEN Below(t[i])[k]
                                ELSE IF k = Len(t[i].ctes) + 1 THEN i ELSE Below(t[i])[k - 1]
<1>1. t[i] \in Query /\ i \in DOMAIN t /\ i \in Nat
  BY StatementShape
<1>2. PICK c, p : c = t[i].ctes /\ p = t[i].prefetch
  OBVIOUS
<1>3. c \in Seq(Nat) /\ p \in Seq(Nat)
  <2>1. Nat \ {0} \subseteq Nat
    OBVIOUS
  <2>2. c \in Seq(Nat \ {0}) /\ p \in Seq(Nat)
    BY <1>1, <1>2, BelowShape
  <2> QED
    BY <2>1, <2>2, SeqMonotonic
<1>4. Len(c) \in Nat /\ Len(p) \in Nat
  BY <1>3, LenProperties
<1>5. <<i>> \in Seq(Nat) /\ Len(<<i>>) = 1 /\ <<i>>[1] = i
  BY <1>1
<1>6. PICK m : m = <<i>>
  OBVIOUS
<1>7. m \in Seq(Nat) /\ Len(m) = 1 /\ m[1] = i
  BY <1>5, <1>6
<1>8. PICK cm : cm = c \o m
  OBVIOUS
<1>9. cm \in Seq(Nat) /\ Len(cm) = Len(c) + 1
      /\ \A k \in 1..(Len(c) + 1) : cm[k] = IF k <= Len(c) THEN c[k] ELSE m[k - Len(c)]
  <2>1. /\ c \o m \in Seq(Nat) /\ Len(c \o m) = Len(c) + Len(m)
        /\ \A k \in 1..(Len(c) + Len(m)) : (c \o m)[k] = IF k <= Len(c) THEN c[k] ELSE m[k - Len(c)]
    BY <1>3, <1>7, ConcatProperties
  <2> QED
    BY <1>7, <1>8, <2>1
<1>10. PICK v : v = cm \o p
  OBVIOUS
<1>11. v \in Seq(Nat) /\ Len(v) = Len(c) + 1 + Len(p)
      /\ \A k \in 1..(Len(c) + 1 + Len(p)) : v[k] = IF k <= Len(c) + 1 THEN cm[k] ELSE p[k - (Len(c) + 1)]
  <2>1. /\ cm \o p \in Seq(Nat) /\ Len(cm \o p) = Len(cm) + Len(p)
        /\ \A k \in 1..(Len(cm) + Len(p)) : (cm \o p)[k] = IF k <= Len(cm) THEN cm[k] ELSE p[k - Len(cm)]
    <3>1. cm \in Seq(Nat) /\ p \in Seq(Nat)
      BY <1>3, <1>9
    <3> QED
      BY <3>1, ConcatProperties
  <2>2. /\ v \in Seq(Nat) /\ Len(v) = Len(cm) + Len(p)
        /\ \A k \in 1..(Len(cm) + Len(p)) : v[k] = IF k <= Len(cm) THEN cm[k] ELSE p[k - Len(cm)]
    BY <1>10, <2>1
  <2>3. Len(cm) = Len(c) + 1
    BY <1>9
  <2> QED
    BY <2>2, <2>3
<1>12. Visits(t)[i] = v
  BY <1>1, <1>2, <1>6, <1>8, <1>10 DEF Visits
<1>13. ASSUME NEW k \in 1..Len(v)
       PROVE  v[k] = IF k <= Len(c) THEN Below(t[i])[k]
                     ELSE IF k = Len(c) + 1 THEN i ELSE Below(t[i])[k - 1]
  <2>1. k \in 1..(Len(c) + 1 + Len(p)) /\ k \in Nat
    BY <1>4, <1>11
  <2>2. CASE k <= Len(c)
    <3>1. k \in 1..Len(c) /\ k \in 1..(Len(c) + 1) /\ k <= Len(c) + 1
      BY <1>4, <2>1, <2>2
    <3>2. v[k] = cm[k] /\ cm[k] = c[k]
      BY <1>9, <1>11, <2>1, <2>2, <3>1
    <3>3. Below(t[i])[k] = c[k]
      BY <1>1, <1>2, <3>1, BelowShape
    <3> QED
      BY <2>2, <3>2, <3>3
  <2>3. CASE k = Len(c) + 1
    <3>1. k \in 1..(Len(c) + 1) /\ k <= Len(c) + 1 /\ ~(k <= Len(c)) /\ k - Len(c) = 1
      BY <1>4, <2>1, <2>3
    <3>2. v[k] = cm[k] /\ cm[k] = m[k - Len(c)]
      BY <1>9, <1>11, <2>1, <3>1
    <3> QED
      BY <1>7, <2>3, <3>1, <3>2
  <2>4. CASE ~(k <= Len(c) + 1)
    <3>1. k - (Len(c) + 1) \in 1..Len(p) /\ Len(c) + (k - (Len(c) + 1)) = k - 1 /\ ~(k <= Len(c)) /\ k # Len(c) + 1
      BY <1>4, <2>1, <2>4
    <3>2. v[k] = p[k - (Len(c) + 1)]
      BY <1>11, <2>1, <2>4
    <3>3. \A l \in 1..Len(p) : Below(t[i])[Len(c) + l] = p[l]
      BY <1>1, <1>2, BelowShape
    <3>4. PICK l \in 1..Len(p) : l = k - (Len(c) + 1)
      BY <3>1
    <3>5. Below(t[i])[k - 1] = p[l]
      BY <3>1, <3>3, <3>4
    <3> QED
      BY <3>1, <3>2, <3>4, <3>5
  <2> QED
    BY <1>4, <2>1, <2>2, <2>3, <2>4
<1> QED
  BY <1>2, <1>11, <1>12, <1>13

\* Its places but the query's own are the places of what is below the query.
LEMMA VisitsBelow ==
  ASSUME NEW t, IsStatement(t), NEW i \in 1..Len(t)
  PROVE  /\ \A k \in 1..Len(Visits(t)[i]) : k # Len(t[i].ctes) + 1 =>
              \E l \in DOMAIN Below(t[i]) : /\ Visits(t)[i][k] = Below(t[i])[l]
                                            /\ l = IF k <= Len(t[i].ctes) THEN k ELSE k - 1
         /\ \A l \in DOMAIN Below(t[i]) : \E k \in 1..Len(Visits(t)[i]) :
              k # Len(t[i].ctes) + 1 /\ Visits(t)[i][k] = Below(t[i])[l]
         /\ Len(t[i].ctes) + 1 \in 1..Len(Visits(t)[i]) /\ Visits(t)[i][Len(t[i].ctes) + 1] = i
         /\ \A l \in DOMAIN Below(t[i]) : Below(t[i])[l] \in {0} \union (i + 1)..Len(t)
<1>1. t[i] \in Query /\ i \in DOMAIN t
  BY StatementShape
<1>2. PICK a, b : a = Len(t[i].ctes) /\ b = Len(t[i].prefetch)
  OBVIOUS
<1>3. a \in Nat /\ b \in Nat /\ DOMAIN Below(t[i]) = 1..(a + b)
  BY <1>1, <1>2, BelowShape
<1>4. Len(Visits(t)[i]) = a + 1 + b
  BY <1>2, VisitsShape
<1>5. \A k \in 1..(a + 1 + b) : Visits(t)[i][k] = IF k <= a THEN Below(t[i])[k]
                                ELSE IF k = a + 1 THEN i ELSE Below(t[i])[k - 1]
  <2>1. \A k \in 1..Len(Visits(t)[i]) :
          Visits(t)[i][k] = IF k <= Len(t[i].ctes) THEN Below(t[i])[k]
                            ELSE IF k = Len(t[i].ctes) + 1 THEN i ELSE Below(t[i])[k - 1]
    BY VisitsShape, ZenonT(60)
  <2> SUFFICES ASSUME NEW k \in 1..(a + 1 + b)
               PROVE  Visits(t)[i][k] = IF k <= a THEN Below(t[i])[k]
                                        ELSE IF k = a + 1 THEN i ELSE Below(t[i])[k - 1]
    OBVIOUS
  <2>2. k \in 1..Len(Visits(t)[i])
    BY <1>4
  <2>3. Visits(t)[i][k] = IF k <= Len(t[i].ctes) THEN Below(t[i])[k]
                          ELSE IF k = Len(t[i].ctes) + 1 THEN i ELSE Below(t[i])[k - 1]
    BY <2>1, <2>2, Zenon
  <2> QED
    BY <1>2, <2>3
<1>6. ASSUME NEW k \in 1..(a + 1 + b), k # a + 1
      PROVE  \E l \in 1..(a + b) : Visits(t)[i][k] = Below(t[i])[l] /\ l = IF k <= a THEN k ELSE k - 1
  <2>1. CASE k <= a
    <3>1. k \in 1..(a + b)
      BY <1>3, <2>1
    <3> QED
      BY <1>5, <2>1, <3>1
  <2>2. CASE ~(k <= a)
    <3>1. k - 1 \in 1..(a + b)
      BY <1>3, <1>6, <2>2
    <3> QED
      BY <1>5, <1>6, <2>2, <3>1
  <2> QED
    BY <2>1, <2>2
<1>7. ASSUME NEW l \in 1..(a + b)
      PROVE  \E k \in 1..(a + 1 + b) : k # a + 1 /\ Visits(t)[i][k] = Below(t[i])[l]
  <2>1. CASE l <= a
    <3>1. l \in 1..(a + 1 + b) /\ l # a + 1
      BY <1>3, <2>1
    <3> QED
      BY <1>5, <2>1, <3>1
  <2>2. CASE ~(l <= a)
    <3>1. l + 1 \in 1..(a + 1 + b) /\ ~(l + 1 <= a) /\ l + 1 # a + 1 /\ (l + 1) - 1 = l
      BY <1>3, <2>2
    <3> QED
      BY <1>5, <3>1
  <2> QED
    BY <2>1, <2>2
<1>8. a + 1 \in 1..(a + 1 + b) /\ ~(a + 1 <= a)
  BY <1>3
<1>9. Visits(t)[i][a + 1] = i
  BY <1>5, <1>8
<1>10. \A l \in DOMAIN Below(t[i]) : Below(t[i])[l] \in {0} \union (i + 1)..Len(t)
  <2>1. \A j \in DOMAIN t : \A k \in DOMAIN Below(t[j]) : Below(t[j])[k] \in {0} \union (j + 1)..Len(t)
    BY DEF IsStatement
  <2> QED
    BY <1>1, <2>1, Zenon
<1>11. \A k \in 1..Len(Visits(t)[i]) : k # a + 1 =>
              \E l \in DOMAIN Below(t[i]) : /\ Visits(t)[i][k] = Below(t[i])[l]
                                            /\ l = IF k <= a THEN k ELSE k - 1
  BY <1>3, <1>4, <1>6
<1>12. \A l \in DOMAIN Below(t[i]) : \E k \in 1..Len(Visits(t)[i]) :
              k # a + 1 /\ Visits(t)[i][k] = Below(t[i])[l]
  BY <1>3, <1>4, <1>7
<1>13. a + 1 \in 1..Len(Visits(t)[i])
  BY <1>4, <1>8
<1> QED
  BY <1>2, <1>9, <1>10, <1>11, <1>12, <1>13, Zenon

\* What is below a query is gone through.
LEMMA BelowVisited ==
  ASSUME NEW t, IsStatement(t), NEW i \in 1..Len(t), NEW l \in DOMAIN Below(t[i])
  PROVE  \E k \in 1..Len(Visits(t)[i]) : Visits(t)[i][k] = Below(t[i])[l]
<1>1. \A m \in DOMAIN Below(t[i]) : \E k \in 1..Len(Visits(t)[i]) :
        k # Len(t[i].ctes) + 1 /\ Visits(t)[i][k] = Below(t[i])[m]
  BY VisitsBelow
<1> QED
  BY <1>1

\* The queries of a statement make a walk.
LEMMA StatementWalk ==
  ASSUME NEW t, IsStatement(t)
  PROVE  IsWalk(Visits(t), Len(t))
<1> DEFINE V == Visits(t)
           N == Len(t)
           own(i) == Len(t[i].ctes) + 1
<1>1. N \in Nat \ {0} /\ DOMAIN t = 1..N
  BY StatementShape
<1>2. ASSUME NEW i \in 1..N, NEW k \in 1..Len(V[i])
      PROVE  IF k = own(i) THEN V[i][k] = i ELSE V[i][k] \in {0} \union (i + 1)..N
  <2>1. CASE k = own(i)
    BY <2>1, VisitsBelow
  <2>2. CASE k # own(i)
    <3>1. PICK l \in DOMAIN Below(t[i]) : V[i][k] = Below(t[i])[l]
      BY <2>2, VisitsBelow
    <3>2. Below(t[i])[l] \in {0} \union (i + 1)..N
      BY VisitsBelow
    <3> QED
      BY <2>2, <3>1, <3>2
  <2> QED
    BY <2>1, <2>2
<1>3. ASSUME NEW i \in 1..N PROVE own(i) \in 1..Len(V[i]) /\ V[i][own(i)] = i
  BY VisitsBelow
<1>4. V \in [1..N -> Seq(0..N)]
  <2>1. ASSUME NEW i \in 1..N PROVE V[i] \in Seq(0..N)
    <3>1. V[i] \in Seq(Nat)
      BY VisitsShape
    <3>2. Len(V[i]) \in Nat /\ V[i] \in [1..Len(V[i]) -> Nat] /\ DOMAIN V[i] = 1..Len(V[i])
      BY <3>1, LenProperties
    <3>3. \A k \in 1..Len(V[i]) : V[i][k] \in 0..N
      <4>1. i \in 0..N /\ {0} \union (i + 1)..N \subseteq 0..N
        BY <1>1
      <4> HIDE DEF V, N, own
      <4> QED
        BY <1>2, <4>1
    <3>4. V[i] \in [1..Len(V[i]) -> 0..N]
      BY <3>2, <3>3
    <3> HIDE DEF V, N
    <3> QED
      BY <3>2, <3>4, SeqDef
  <2>2. V = [i \in 1..N |-> V[i]]
    BY <1>1 DEF Visits
  <2> HIDE DEF V, N
  <2> QED
    BY <2>1, <2>2
<1>5. \A i \in 1..N : \A k \in 1..Len(V[i]) : V[i][k] = 0 \/ V[i][k] >= i
  <2> SUFFICES ASSUME NEW i \in 1..N, NEW k \in 1..Len(V[i]) PROVE V[i][k] = 0 \/ V[i][k] >= i
    OBVIOUS
  <2>1. V[i][k] \in {0} \union {i} \union (i + 1)..N
    <3> HIDE DEF V, N, own
    <3> QED
      BY <1>2
  <2> QED
    BY <1>1, <2>1
<1>6. \A i \in 1..N : \E k \in 1..Len(V[i]) : V[i][k] = i
  BY <1>3
<1>7. \A h, i \in 1..N : \A k \in DOMAIN Below(t[h]), l \in DOMAIN Below(t[i]) :
        Below(t[h])[k] = Below(t[i])[l] /\ Below(t[h])[k] # 0 => h = i /\ k = l
  <2>1. \A h, i \in DOMAIN t : \A k \in DOMAIN Below(t[h]), l \in DOMAIN Below(t[i]) :
          Below(t[h])[k] = Below(t[i])[l] /\ Below(t[h])[k] # 0 => h = i /\ k = l
    BY Zenon DEF IsStatement
  <2> QED
    BY <1>1, <2>1
<1>8. ASSUME NEW h \in 1..N, NEW k \in 1..Len(V[h]), k # own(h),
             NEW i \in 1..N, NEW l \in 1..Len(V[i]), l # own(i),
             V[h][k] = V[i][l], V[h][k] # 0
      PROVE  h = i /\ k = l
  <2>1. PICK m \in DOMAIN Below(t[h]) :
          V[h][k] = Below(t[h])[m] /\ m = IF k <= Len(t[h].ctes) THEN k ELSE k - 1
    BY <1>8, VisitsBelow
  <2>2. PICK n \in DOMAIN Below(t[i]) :
          V[i][l] = Below(t[i])[n] /\ n = IF l <= Len(t[i].ctes) THEN l ELSE l - 1
    BY <1>8, VisitsBelow
  <2>3. h = i /\ m = n
    <3>1. Below(t[h])[m] = Below(t[i])[n] /\ Below(t[h])[m] # 0
      BY <1>8, <2>1, <2>2
    <3>2. \A x \in DOMAIN Below(t[h]), y \in DOMAIN Below(t[i]) :
            Below(t[h])[x] = Below(t[i])[y] /\ Below(t[h])[x] # 0 => h = i /\ x = y
      <4> HIDE DEF V, N, own
      <4> QED
        BY <1>7
    <3> HIDE DEF V, N, own
    <3> QED
      BY <3>1, <3>2
  <2>4. Len(t[i].ctes) \in Nat /\ k \in Nat /\ l \in Nat
    <3>1. t[i] \in Query /\ Visits(t)[i] \in Seq(Nat) /\ Visits(t)[h] \in Seq(Nat)
      BY StatementShape, VisitsShape
    <3>2. Len(t[i].ctes) \in Nat
      BY <3>1, BelowShape
    <3>3. Len(Visits(t)[i]) \in Nat /\ Len(Visits(t)[h]) \in Nat
      BY <3>1, LenProperties
    <3> QED
      BY <3>2, <3>3
  <2>5. k # Len(t[i].ctes) + 1 /\ l # Len(t[i].ctes) + 1
    BY <1>8, <2>3
  <2>6. PICK c : c = Len(t[i].ctes)
    OBVIOUS
  <2>7. (IF k <= c THEN k ELSE k - 1) = (IF l <= c THEN l ELSE l - 1)
    BY <2>1, <2>2, <2>3, <2>6
  <2>8. k = l
    BY <2>4, <2>5, <2>6, <2>7
  <2> QED
    BY <2>3, <2>8
<1>9. \A i \in 1..N : \A k, l \in 1..Len(V[i]) : V[i][k] = V[i][l] /\ V[i][k] # 0 => k = l
  <2> SUFFICES ASSUME NEW i \in 1..N, NEW k \in 1..Len(V[i]), NEW l \in 1..Len(V[i]),
                      V[i][k] = V[i][l], V[i][k] # 0
               PROVE  k = l
    OBVIOUS
  <2>1. i \notin (i + 1)..N
    BY <1>1
  <2>2. CASE k = own(i) /\ l = own(i)
    BY <2>2
  <2>3. CASE k = own(i) /\ l # own(i)
    <3>1. V[i][k] = i /\ V[i][l] \in {0} \union (i + 1)..N
      BY <1>2, <2>3
    <3> QED
      BY <2>1, <3>1
  <2>4. CASE k # own(i) /\ l = own(i)
    <3>1. V[i][l] = i /\ V[i][k] \in {0} \union (i + 1)..N
      BY <1>2, <2>4
    <3> QED
      BY <2>1, <3>1
  <2>5. CASE k # own(i) /\ l # own(i)
    <3> HIDE DEF V, own
    <3> QED
      BY <1>8, <2>5
  <2> QED
    BY <2>2, <2>3, <2>4, <2>5
<1>10. \A h, i \in 1..N : h # i => \A k \in 1..Len(V[h]), l \in 1..Len(V[i]) :
         V[h][k] = V[i][l] /\ V[h][k] # 0 => V[h][k] = h \/ V[i][l] = i
  <2> SUFFICES ASSUME NEW h \in 1..N, NEW i \in 1..N, h # i,
                      NEW k \in 1..Len(V[h]), NEW l \in 1..Len(V[i]),
                      V[h][k] = V[i][l], V[h][k] # 0
               PROVE  V[h][k] = h \/ V[i][l] = i
    OBVIOUS
  <2>1. k = own(h) \/ l = own(i)
    <3> HIDE DEF V, own
    <3> QED
      BY <1>8
  <2> HIDE DEF V, own
  <2> QED
    BY <1>3, <2>1
<1>11. \A j \in 2..N : \E i \in 1..N : \E k \in 1..Len(V[i]) : V[i][k] = j /\ i # j
  <2> SUFFICES ASSUME NEW j \in 2..N PROVE \E i \in 1..N : \E k \in 1..Len(V[i]) : V[i][k] = j /\ i # j
    OBVIOUS
  <2>1. PICK i \in DOMAIN t : \E m \in DOMAIN Below(t[i]) : Below(t[i])[m] = j
    BY Zenon DEF IsStatement
  <2>2. PICK m \in DOMAIN Below(t[i]) : Below(t[i])[m] = j
    BY <2>1
  <2>3. i \in 1..N
    BY <1>1
  <2>4. PICK k \in 1..Len(V[i]) : V[i][k] = Below(t[i])[m]
    BY <2>3, BelowVisited
  <2>5. j \in {0} \union (i + 1)..N
    BY <2>2, <2>3, VisitsBelow
  <2>6. i # j
    BY <1>1, <2>3, <2>5
  <2> QED
    BY <2>2, <2>3, <2>4, <2>6
<1> QED
  <2> HIDE DEF V, N
  <2>1. IsWalk(V, N)
    BY <1>1, <1>4, <1>5, <1>6, <1>9, <1>10, <1>11 DEF IsWalk
  <2> QED
    BY <2>1 DEF V, N

\* Both walks go through every query of the statement once.
LEMMA WalkOnce ==
  ASSUME NEW t, IsStatement(t)
  PROVE  /\ Applied(t) = Collected(t) /\ Collected(t) \in Seq(1..Len(t))
         /\ Distinct(Collected(t)) /\ Rng(Collected(t)) = 1..Len(t)
<1>1. Collected(t) = InOrder(Visits(t)) /\ Applied(t) = InOrder(Visits(t))
  BY DEF Collected, Applied, Visits
<1> QED
  BY <1>1, StatementWalk, InOrderOnce

-----------------------------------------------------------------------------
(* The jobs of inputs, and the vectors put in their places.                *)

\* Jobs, and targets that are settled.
AnyJob == [modality : {"dense", "sparse", "multi", "image"}, model : Nat, input : STRING]

\* The targets ExprJobs accepts.
AnyTarget == [kind : {"dense", "sparse"}, multi : BOOLEAN]

\* The job of an input, and the vector it asks for.
JobOf(x, target, default) ==
  Job(IF x.type = "text" THEN TextModality(target) ELSE "image", ModelOr(x.model, default), x.text)

\* The jobs of one input: none for a vector.
InputJob(x, target, default) ==
  IF x.type \notin {"text", "image"} THEN <<>> ELSE <<JobOf(x, target, default)>>

\* The vector a job asks for.
VecOf(job) == Vec(job.modality, job.model, job.input)

\* The target of an expression.
Aim(e) == Target(e.using)[1]

\* The jobs of an expression.
JobsOf(e) ==
  IF e.op \in {"points", "rerank"}
  THEN FlattenSeq([k \in DOMAIN e.inputs |-> InputJob(e.inputs[k], Aim(e), DefaultModel(e))])
  ELSE IF e.op = "hybrid"
  THEN <<Job("dense", ModelOr(e.model, 0), e.inputs[1].text),
         Job("sparse", ModelOr(e.model, 0), e.inputs[1].text)>>
  ELSE <<>>

\* A result is an error or not.
LEMMA ErrorIsNotOk == \A x : Ok(x) # Error /\ Ok(x)[1] = x
BY DEF Ok, Error

\* The first walk finds the job of an input, and refuses an image no model of the
\* target reads.
LEMMA InputJobsIs ==
  ASSUME NEW x \in Input, NEW target, NEW default, InputJobs(x, target, default) # Error
  PROVE  /\ InputJobs(x, target, default) = Ok(InputJob(x, target, default))
         /\ x.type = "image" => ImageFits(target)
BY DEF InputJobs, InputJob, JobOf

\* It is a job.
LEMMA InputJobType ==
  ASSUME NEW x \in Input, NEW target \in AnyTarget, NEW default \in Nat
  PROVE  InputJob(x, target, default) \in Seq(AnyJob)
<1>1. CASE x.type \notin {"text", "image"}
  BY <1>1 DEF InputJob
<1>2. CASE x.type \in {"text", "image"}
  <2>1. x \in [type : {"text", "image"}, text : STRING, model : Seq(Nat), options : BOOLEAN,
               unbound : BOOLEAN]
    BY <1>2 DEF Input
  <2>2. ModelOr(x.model, default) \in Nat
    <3>1. x.model \in Seq(Nat)
      BY <2>1
    <3>2. CASE x.model = <<>>
      BY <3>2 DEF ModelOr
    <3>3. CASE x.model # <<>>
      <4>1. 1 \in 1..Len(x.model)
        BY <3>1, <3>3
      <4>2. x.model[1] \in Nat
        BY <3>1, <4>1, ElementOfSeq
      <4> QED
        BY <3>3, <4>2 DEF ModelOr
    <3> QED
      BY <3>2, <3>3
  <2>3. TextModality(target) \in {"dense", "sparse", "multi"}
    BY DEF TextModality
  <2>4. JobOf(x, target, default) \in AnyJob
    BY <2>1, <2>2, <2>3 DEF JobOf, Job, AnyJob
  <2> QED
    BY <1>2, <2>4 DEF InputJob
<1> QED
  BY <1>1, <1>2

\* No error, all results.
LEMMA AllOkIs ==
  ASSUME NEW results, AllOk(results) # Error
  PROVE  /\ \A i \in DOMAIN results : results[i] # Error
         /\ AllOk(results) = Ok([i \in DOMAIN results |-> results[i][1]])
BY DEF AllOk

\* No error, all lists of results, one after the other.
LEMMA ConcatIs ==
  ASSUME NEW results, Concat(results) # Error
  PROVE  /\ \A i \in DOMAIN results : results[i] # Error
         /\ Concat(results) = Ok(FlattenSeq([i \in DOMAIN results |-> results[i][1]]))
<1>1. AllOk(results) # Error
  BY DEF Concat
<1>2. Concat(results) = Ok(FlattenSeq(AllOk(results)[1]))
  BY <1>1 DEF Concat
<1> QED
  BY <1>1, <1>2, AllOkIs, ErrorIsNotOk

\* The list of jobs goes on with js.
ComeNext(todo, pos, js) ==
  /\ pos \in Nat \ {0}
  /\ \A j \in 1..Len(js) : (pos - 1) + j \in 1..Len(todo) /\ todo[(pos - 1) + j] = js[j]

\* Every job has its vector.
Answered(todo, came) == \A i \in 1..Len(todo) : came[i] = <<VecOf(todo[i])>>

\* Lists of jobs, one of each expression or input.
JobLists(ss) == ss \in Seq(Seq(AnyJob))

\* When the jobs of a list of parts come next, those of its n-th part come after
\* those of the parts before it.
LEMMA NextPart ==
  ASSUME NEW ss, JobLists(ss), NEW off, NEW flat, Offsets(off, ss, flat),
         NEW todo, NEW pos, ComeNext(todo, pos, flat), NEW n, n \in 1..Len(ss)
  PROVE  /\ ComeNext(todo, pos + off[n - 1], ss[n])
         /\ pos + off[n] = (pos + off[n - 1]) + Len(ss[n])
<1>0. ss \in Seq(Seq(AnyJob))
  BY DEF JobLists
<1>1. Len(ss) \in Nat /\ ss[n] \in Seq(AnyJob) /\ Len(ss[n]) \in Nat
  BY <1>0, LenProperties, ElementOfSeq
<1>2. n - 1 \in 0..Len(ss) /\ n \in 0..Len(ss) /\ Len(ss) \in n..Len(ss)
  BY <1>1
<1>3. off[n] = off[n - 1] + Len(ss[n]) /\ off[n - 1] \in Nat /\ off[n] \in Nat /\ off[Len(ss)] = Len(flat)
      /\ off[Len(ss)] \in Nat
  <2>1. Len(ss) \in 0..Len(ss)
    BY <1>1
  <2> QED
    BY <1>2, <2>1 DEF Offsets
<1>4. off[n] <= off[Len(ss)]
  BY <1>0, <1>2, OffsetsGrow
<1>5. pos \in Nat \ {0}
  BY DEF ComeNext
<1>6. PICK a, b, c, d : a = off[n - 1] /\ b = Len(ss[n]) /\ c = Len(flat) /\ d = off[n]
  OBVIOUS
<1>7. a \in Nat /\ b \in Nat /\ c \in Nat /\ a + b <= c /\ d = a + b
  BY <1>1, <1>3, <1>4, <1>6
<1>8. ASSUME NEW j \in 1..b
      PROVE  ((pos + a) - 1) + j \in 1..Len(todo) /\ todo[((pos + a) - 1) + j] = ss[n][j]
  <2>1. a + j \in 1..c /\ (pos - 1) + (a + j) = ((pos + a) - 1) + j
    BY <1>5, <1>7
  <2>2. \A k \in 1..c : (pos - 1) + k \in 1..Len(todo) /\ todo[(pos - 1) + k] = flat[k]
    BY <1>6 DEF ComeNext
  <2>3. flat[a + j] = ss[n][j]
    <3>1. \A i \in 1..Len(ss[n]) : flat[off[n - 1] + i] = ss[n][i]
      BY Zenon DEF Offsets
    <3> QED
      BY <1>6, <3>1
  <2> QED
    BY <2>1, <2>2, <2>3
<1>9. ComeNext(todo, pos + a, ss[n])
  <2>1. pos + a \in Nat \ {0}
    BY <1>5, <1>7
  <2>2. ASSUME NEW j \in 1..Len(ss[n])
        PROVE  ((pos + a) - 1) + j \in 1..Len(todo) /\ todo[((pos + a) - 1) + j] = ss[n][j]
    <3>1. j \in 1..b
      BY <1>6
    <3> QED
      BY <1>8, <3>1, Zenon
  <2> QED
    BY <2>1, <2>2, Zenon DEF ComeNext
<1>10. pos + d = (pos + a) + b
  BY <1>5, <1>7
<1> QED
  BY <1>6, <1>9, <1>10

\* A vector is put where its job was found.
LEMMA TakeIs ==
  ASSUME NEW todo, NEW came, Answered(todo, came), NEW pos \in 1..Len(todo), Len(todo) \in Nat
  PROVE  Take(todo[pos].modality, todo, came, pos) = Step(TRUE, pos + 1, VecOf(todo[pos]))
<1>1. came[pos] = <<VecOf(todo[pos])>>
  BY DEF Answered
<1>2. came[pos][1] = VecOf(todo[pos])
  BY <1>1
<1>3. ~(pos > Len(todo))
  OBVIOUS
<1> QED
  BY <1>2, <1>3 DEF Take

\* The second walk replaces an input by its own vector and moves past its job, or
\* refuses it for being empty.
LEMMA ApplyInputIs ==
  ASSUME NEW x \in Input, NEW target, NEW default, NEW todo, NEW came, NEW none, NEW pos,
         x.type = "image" => ImageFits(target), Len(todo) \in Nat,
         Answered(todo, came), ComeNext(todo, pos, InputJob(x, target, default))
  PROVE  IF Spared(x, target, default, none)
         THEN ApplyInput(x, target, todo, came, none, pos)
                = Step(TRUE, pos + Len(InputJob(x, target, default)), OwnVector(x, target, default))
         ELSE ApplyInput(x, target, todo, came, none, pos).ok = FALSE
<1>1. pos \in Nat \ {0}
  BY DEF ComeNext
<1>2. CASE x.type \notin {"text", "image"}
  <2>1. InputJob(x, target, default) = <<>> /\ Len(<<>>) = 0
    BY <1>2 DEF InputJob
  <2>2. pos + 0 = pos
    BY <1>1
  <2>3. Spared(x, target, default, none)
    BY <1>2 DEF Spared
  <2> QED
    BY <1>2, <2>1, <2>2, <2>3 DEF ApplyInput, OwnVector
<1>3. CASE x.type \in {"text", "image"}
  <2> DEFINE job == JobOf(x, target, default)
             modality == IF x.type = "text" THEN TextModality(target) ELSE "image"
             kept == modality = "sparse" \/ VecOf(job) \notin none
  <2>1. InputJob(x, target, default) = <<job>> /\ Len(<<job>>) = 1 /\ <<job>>[1] = job
    BY <1>3 DEF InputJob
  <2>2. pos \in 1..Len(todo) /\ todo[pos] = job
    <3>1. \A j \in 1..1 : (pos - 1) + j \in 1..Len(todo) /\ todo[(pos - 1) + j] = <<job>>[j]
      <4> HIDE DEF job
      <4> QED
        BY <2>1 DEF ComeNext
    <3>2. 1 \in 1..1 /\ (pos - 1) + 1 = pos
      BY <1>1
    <3> HIDE DEF job
    <3> QED
      BY <2>1, <3>1, <3>2
  <2>3. Take(job.modality, todo, came, pos) = Step(TRUE, pos + 1, VecOf(job))
    BY <2>2, TakeIs
  <2>4. job.modality = modality
    BY DEF JobOf, Job
  <2>5. OwnVector(x, target, default) = VectorInput(VecOf(job))
    BY <1>3 DEF OwnVector, VecOf, JobOf, Job
  <2>6. Spared(x, target, default, none) <=> kept
    <3>1. VectorInput(VecOf(job)).value = VecOf(job)
      BY DEF VectorInput
    <3>2. modality = "sparse" <=> x.type = "text" /\ TextModality(target) = "sparse"
      BY <1>3
    <3> HIDE DEF job, modality
    <3> QED
      BY <1>3, <2>5, <3>1, <3>2 DEF Spared
  <2> DEFINE r == Take(modality, todo, came, pos)
  <2>7. ApplyInput(x, target, todo, came, none, pos)
          = Step(r.ok /\ (modality = "sparse" \/ r.val \notin none), r.at, VectorInput(r.val))
    BY <1>3 DEF ApplyInput
  <2>8. r = Step(TRUE, pos + 1, VecOf(job))
    BY <2>3, <2>4
  <2>9. r.ok = TRUE /\ r.at = pos + 1 /\ r.val = VecOf(job)
    <3> HIDE DEF r
    <3> QED
      BY <2>8 DEF Step
  <2>10. ApplyInput(x, target, todo, came, none, pos) = Step(kept, pos + 1, VectorInput(VecOf(job)))
    <3>1. (r.ok /\ (modality = "sparse" \/ r.val \notin none)) = kept
      <4> HIDE DEF r, job, modality
      <4> QED
        BY <2>9
    <3> HIDE DEF r, job, modality, kept
    <3> QED
      BY <2>7, <2>9, <3>1
  <2>11. kept \in BOOLEAN
    OBVIOUS
  <2> HIDE DEF r, job, modality, kept
  <2>12. CASE kept
    <3>1. kept = TRUE
      BY <2>11, <2>12
    <3> QED
      BY <2>1, <2>5, <2>6, <2>10, <3>1
  <2>13. CASE ~kept
    <3>1. kept = FALSE
      BY <2>11, <2>13
    <3>2. Step(FALSE, pos + 1, VectorInput(VecOf(job))).ok = FALSE
      BY DEF Step
    <3> QED
      BY <2>6, <2>10, <3>1, <3>2
  <2> QED
    BY <2>12, <2>13
<1> QED
  BY <1>2, <1>3

\* The jobs of the inputs of an expression, input by input.
InputsOf(e) == [k \in DOMAIN e.inputs |-> InputJob(e.inputs[k], Aim(e), DefaultModel(e))]

\* The inputs of an expression with the first n replaced.
Filled(e, n) ==
  [k \in DOMAIN e.inputs |->
     IF k <= n THEN OwnVector(e.inputs[k], Aim(e), DefaultModel(e)) ELSE e.inputs[k]]

\* The first number up to L that is not one of the fine ones, where a walk gets stuck.
LEMMA FirstBad ==
  ASSUME NEW L \in Nat, NEW Fine
  PROVE  \E b : /\ \A n \in 1..L : 1..(n - 1) \subseteq Fine /\ n \notin Fine => n = b
               /\ \A n \in 0..L : ~(1..n \subseteq Fine)
                                => b \in 1..n /\ 1..(b - 1) \subseteq Fine /\ b \notin Fine
<1> DEFINE Bad == {n \in 1..L : n \notin Fine}
<1>1. CASE Bad = {}
  <2>1. \A n \in 0..L : 1..n \subseteq 1..L
    OBVIOUS
  <2>2. \A n \in 1..L : n \in Fine
    BY <1>1
  <2> QED
    BY <2>1, <2>2
<1>2. CASE Bad # {}
  <2>1. Bad \in SUBSET Nat
    OBVIOUS
  <2>2. PICK b \in Bad : \A m \in Bad : b <= m
    <3> HIDE DEF Bad
    <3> QED
      BY <1>2, <2>1, LeastElement
  <2>3. b \in 1..L /\ b \notin Fine
    BY <2>2
  <2>4. 1..(b - 1) \subseteq Fine
    <3> SUFFICES ASSUME NEW m \in 1..(b - 1), m \notin Fine PROVE FALSE
      OBVIOUS
    <3>1. m \in 1..L /\ ~(b <= m)
      BY <2>3
    <3> QED
      BY <2>2, <3>1
  <2>5. ASSUME NEW n \in 1..L, 1..(n - 1) \subseteq Fine, n \notin Fine PROVE n = b
    <3>1. b <= n
      BY <2>2, <2>5
    <3>2. b < n => b \in 1..(n - 1)
      BY <2>3
    <3> QED
      BY <2>3, <2>5, <3>1, <3>2
  <2>6. ASSUME NEW n \in 0..L, ~(1..n \subseteq Fine) PROVE b \in 1..n
    <3>1. PICK m \in 1..n : m \notin Fine
      BY <2>6
    <3>2. m \in Bad
      BY <3>1
    <3>3. b <= m
      BY <2>2, <3>2
    <3> QED
      BY <2>3, <3>3
  <2> QED
    BY <2>3, <2>4, <2>5, <2>6
<1> QED
  BY <1>1, <1>2

\* The inputs of an expression whose vectors are not refused.
FineInputs(e, none) ==
  {k \in 1..Len(e.inputs) : Spared(e.inputs[k], Aim(e), DefaultModel(e), none)}

\* The inputs of an expression are each replaced by their own vector, or one is
\* refused.
LEMMA ApplyInputsIs ==
  ASSUME NEW e, e.inputs \in Seq(Input), JobLists(InputsOf(e)),
         \A k \in 1..Len(e.inputs) : e.inputs[k].type = "image" => ImageFits(Aim(e)),
         NEW todo, NEW came, NEW none, NEW pos, Len(todo) \in Nat,
         Answered(todo, came), ComeNext(todo, pos, FlattenSeq(InputsOf(e)))
  PROVE  IF 1..Len(e.inputs) \subseteq FineInputs(e, none)
         THEN ApplyInputs(e, Aim(e), todo, came, none, pos)
                = Step(TRUE, pos + Len(FlattenSeq(InputsOf(e))), Filled(e, Len(e.inputs)))
         ELSE ApplyInputs(e, Aim(e), todo, came, none, pos).ok = FALSE
<1> DEFINE L == Len(e.inputs)
           target == Aim(e)
           ss == InputsOf(e)
           Fine == FineInputs(e, none)
           F(f) == [n \in 0..Len(e.inputs) |->
                      IF n = 0 THEN Step(TRUE, pos, e.inputs)
                      ELSE IF ~f[n - 1].ok THEN f[n - 1]
                      ELSE LET r == ApplyInput(e.inputs[n], target, todo, came, none, f[n - 1].at)
                           IN  Step(r.ok, r.at, [f[n - 1].val EXCEPT ![n] = r.val])]
           walk == CHOOSE f : f = F(f)
<1>1. L \in Nat /\ DOMAIN e.inputs = 1..L /\ \A k \in 1..L : e.inputs[k] \in Input
  BY LenProperties, ElementOfSeq
<1>2. Len(ss) = L /\ \A n \in 1..L : ss[n] = InputJob(e.inputs[n], target, DefaultModel(e))
  <2>1. \A n \in 1..L : ss[n] = InputJob(e.inputs[n], target, DefaultModel(e))
    BY <1>1 DEF InputsOf
  <2>2. DOMAIN ss = 1..L /\ DOMAIN ss = 1..Len(ss) /\ Len(ss) \in Nat
    <3>1. ss \in Seq(Seq(AnyJob))
      BY DEF JobLists
    <3> QED
      BY <1>1, <3>1, LenProperties DEF InputsOf
  <2>3. \A a, b \in Nat : 1..a = 1..b => a = b
    <3> SUFFICES ASSUME NEW a \in Nat, NEW b \in Nat, 1..a = 1..b PROVE a = b
      OBVIOUS
    <3>1. a >= 1 => a \in 1..a
      OBVIOUS
    <3>2. b >= 1 => b \in 1..b
      OBVIOUS
    <3>3. a >= 1 => a <= b
      BY <3>1
    <3>4. b >= 1 => b <= a
      BY <3>2
    <3> QED
      BY <3>3, <3>4
  <2> QED
    BY <1>1, <2>1, <2>2, <2>3
<1>3. PICK off : Offsets(off, ss, FlattenSeq(ss))
  <2>1. ss \in Seq(Seq(AnyJob))
    BY DEF JobLists
  <2> QED
    BY <2>1, Flattened
<1>a. pos \in Nat \ {0}
  BY DEF ComeNext
<1>b. PICK b : /\ \A n \in 1..L : 1..(n - 1) \subseteq Fine /\ n \notin Fine => n = b
               /\ \A n \in 0..L : ~(1..n \subseteq Fine)
                                => b \in 1..n /\ 1..(b - 1) \subseteq Fine /\ b \notin Fine
  <2> HIDE DEF L, Fine
  <2> QED
    BY <1>1, FirstBad
<1> DEFINE Here(n) == ApplyInput(e.inputs[n], target, todo, came, none, pos + off[n - 1])
           stuck == Step(Here(b).ok, Here(b).at, [Filled(e, b - 1) EXCEPT ![b] = Here(b).val])
           g == [n \in 0..L |-> IF 1..n \subseteq Fine THEN Step(TRUE, pos + off[n], Filled(e, n)) ELSE stuck]
<1>4. off[0] = 0 /\ off[L] = Len(FlattenSeq(ss)) /\ 0 \in 0..L /\ L \in 0..L
  <2>1. off[0] = 0 /\ off[Len(ss)] = Len(FlattenSeq(ss))
    BY <1>3 DEF Offsets
  <2> QED
    BY <1>1, <1>2, <2>1
<1>5. Filled(e, 0) = e.inputs
  <2>1. \A k \in 1..L : ~(k <= 0)
    BY <1>1
  <2>2. e.inputs = [k \in 1..L |-> e.inputs[k]]
    BY LenProperties
  <2> HIDE DEF L
  <2> QED
    BY <1>1, <2>1, <2>2 DEF Filled
<1>6. g[0] = Step(TRUE, pos, e.inputs)
  <2>1. pos + 0 = pos /\ 1..0 = {}
    BY <1>a
  <2> HIDE DEF stuck, Fine, L
  <2> QED
    BY <1>4, <1>5, <2>1
<1>7. ASSUME NEW n \in 1..L
      PROVE  /\ n - 1 \in 0..L /\ n \in 0..L
             /\ IF n \in Fine
                THEN Here(n) = Step(TRUE, pos + off[n], OwnVector(e.inputs[n], target, DefaultModel(e)))
                ELSE Here(n).ok = FALSE
             /\ [Filled(e, n - 1) EXCEPT ![n] = OwnVector(e.inputs[n], target, DefaultModel(e))] = Filled(e, n)
  <2>1. n - 1 \in 0..L /\ n \in 0..L /\ n \in 1..Len(ss)
    BY <1>1, <1>2
  <2>2. ComeNext(todo, pos + off[n - 1], ss[n]) /\ pos + off[n] = (pos + off[n - 1]) + Len(ss[n])
    <3>1. JobLists(ss) /\ ComeNext(todo, pos, FlattenSeq(ss))
      OBVIOUS
    <3> HIDE DEF ss
    <3> QED
      BY <1>3, <2>1, <3>1, NextPart
  <2>3. e.inputs[n] \in Input /\ ss[n] = InputJob(e.inputs[n], target, DefaultModel(e))
    BY <1>1, <1>2
  <2>4. e.inputs[n].type = "image" => ImageFits(target)
    OBVIOUS
  <2>5. IF n \in Fine
        THEN Here(n) = Step(TRUE, (pos + off[n - 1]) + Len(InputJob(e.inputs[n], target, DefaultModel(e))),
                            OwnVector(e.inputs[n], target, DefaultModel(e)))
        ELSE Here(n).ok = FALSE
    <3>1. ComeNext(todo, pos + off[n - 1], InputJob(e.inputs[n], target, DefaultModel(e)))
      BY <2>2, <2>3
    <3>2. PICK x, d, a : x = e.inputs[n] /\ d = DefaultModel(e) /\ a = pos + off[n - 1]
      OBVIOUS
    <3>3. /\ x \in Input /\ (x.type = "image" => ImageFits(target))
          /\ ComeNext(todo, a, InputJob(x, target, d))
      BY <2>3, <2>4, <3>1, <3>2
    <3>4. IF Spared(x, target, d, none)
          THEN ApplyInput(x, target, todo, came, none, a)
                 = Step(TRUE, a + Len(InputJob(x, target, d)), OwnVector(x, target, d))
          ELSE ApplyInput(x, target, todo, came, none, a).ok = FALSE
      <4> HIDE DEF target
      <4> QED
        BY <3>3, ApplyInputIs
    <3>5. n \in Fine <=> Spared(x, target, d, none)
      BY <3>2 DEF FineInputs
    <3> HIDE DEF target, Fine
    <3> QED
      BY <3>2, <3>4, <3>5
  <2>6. [Filled(e, n - 1) EXCEPT ![n] = OwnVector(e.inputs[n], target, DefaultModel(e))] = Filled(e, n)
    <3>1. \A k \in 1..L : k <= n <=> k = n \/ k <= n - 1
      BY <1>1
    <3> HIDE DEF L
    <3> QED
      BY <1>1, <3>1 DEF Filled
  <2> HIDE DEF Here, Fine, target
  <2> QED
    BY <2>1, <2>2, <2>3, <2>5, <2>6
<1>8. ASSUME NEW n \in 0..L, 1..n \subseteq Fine
      PROVE  g[n].ok = TRUE /\ g[n].at = pos + off[n] /\ g[n].val = Filled(e, n)
             /\ g[n] = Step(TRUE, pos + off[n], Filled(e, n))
  <2>1. g[n] = Step(TRUE, pos + off[n], Filled(e, n))
    <3> HIDE DEF stuck, Fine, L
    <3> QED
      BY <1>8
  <2> HIDE DEF g
  <2> QED
    BY <2>1 DEF Step
<1>c. ASSUME NEW n \in 0..L, ~(1..n \subseteq Fine)
      PROVE  g[n] = stuck /\ stuck.ok = FALSE
  <2>1. b \in 1..n /\ b \notin Fine
    <3> HIDE DEF L, Fine
    <3> QED
      BY <1>b, <1>c
  <2>2. b \in 1..L
    BY <1>1, <2>1
  <2>3. Here(b).ok = FALSE
    <3> HIDE DEF Here, Fine, L
    <3> QED
      BY <1>7, <2>1, <2>2
  <2>4. g[n] = stuck
    <3> HIDE DEF stuck, Fine, L
    <3> QED
      BY <1>c
  <2> HIDE DEF Here
  <2> QED
    BY <2>3, <2>4 DEF Step
<1>9. ASSUME NEW n \in 1..L, NEW f, f[n - 1] = g[n - 1]
      PROVE  F(f)[n] = g[n]
  <2>1. n - 1 \in 0..L /\ n \in 0..L /\ n # 0 /\ 1..n = 1..(n - 1) \union {n}
    BY <1>1
  <2> DEFINE r == ApplyInput(e.inputs[n], target, todo, came, none, f[n - 1].at)
  <2>2. F(f)[n] = IF ~f[n - 1].ok THEN f[n - 1]
                  ELSE Step(r.ok, r.at, [f[n - 1].val EXCEPT ![n] = r.val])
    <3> HIDE DEF g
    <3> QED
      BY <2>1
  <2>3. CASE ~(1..(n - 1) \subseteq Fine)
    <3>1. g[n - 1] = stuck /\ stuck.ok = FALSE
      <4> HIDE DEF g, L, Fine, stuck
      <4> QED
        BY <1>c, <2>1, <2>3
    <3>2. g[n] = stuck
      <4> HIDE DEF g, L, Fine, stuck
      <4> QED
        BY <1>c, <2>1, <2>3
    <3> HIDE DEF F, g, r, stuck
    <3> QED
      BY <1>9, <2>2, <3>1, <3>2
  <2>4. CASE 1..(n - 1) \subseteq Fine
    <3>1. f[n - 1].ok = TRUE /\ f[n - 1].val = Filled(e, n - 1) /\ r = Here(n)
      <4>1. g[n - 1].ok = TRUE /\ g[n - 1].at = pos + off[n - 1] /\ g[n - 1].val = Filled(e, n - 1)
        <5> HIDE DEF g, L, Fine
        <5> QED
          BY <1>8, <2>1, <2>4
      <4> HIDE DEF g
      <4> QED
        BY <1>9, <4>1
    <3>2. F(f)[n] = Step(Here(n).ok, Here(n).at, [Filled(e, n - 1) EXCEPT ![n] = Here(n).val])
      <4> HIDE DEF F, r, Here
      <4> QED
        BY <2>2, <3>1
    <3>3. CASE n \in Fine
      <4>1. 1..n \subseteq Fine
        <5> HIDE DEF Fine
        <5> QED
          BY <2>1, <2>4, <3>3
      <4>2. g[n] = Step(TRUE, pos + off[n], Filled(e, n))
        <5> HIDE DEF g, L, Fine
        <5> QED
          BY <1>8, <2>1, <4>1
      <4>3. /\ Here(n) = Step(TRUE, pos + off[n], OwnVector(e.inputs[n], target, DefaultModel(e)))
            /\ [Filled(e, n - 1) EXCEPT ![n] = OwnVector(e.inputs[n], target, DefaultModel(e))] = Filled(e, n)
        <5> HIDE DEF Here, L, Fine, target
        <5> QED
          BY <1>7, <3>3
      <4>4. /\ Here(n).ok = TRUE /\ Here(n).at = pos + off[n]
            /\ Here(n).val = OwnVector(e.inputs[n], target, DefaultModel(e))
        <5> HIDE DEF Here
        <5> QED
          BY <4>3 DEF Step
      <4> HIDE DEF F, g, Here, target
      <4> QED
        BY <3>2, <4>2, <4>3, <4>4
    <3>4. CASE n \notin Fine
      <4>1. n = b
        <5> HIDE DEF L, Fine
        <5> QED
          BY <1>b, <2>4, <3>4
      <4>2. ~(1..n \subseteq Fine)
        <5> HIDE DEF Fine
        <5> QED
          BY <2>1, <3>4
      <4>3. g[n] = stuck
        <5> HIDE DEF g, L, Fine, stuck
        <5> QED
          BY <1>c, <2>1, <4>2
      <4> HIDE DEF F, g, Here
      <4> QED
        BY <3>2, <4>1, <4>3
    <3> QED
      BY <3>3, <3>4
  <2> QED
    BY <2>3, <2>4
<1>10. \A f : F(f) = [n \in 0..L |-> F(f)[n]] /\ F(f)[0] = Step(TRUE, pos, e.inputs)
  BY <1>4
<1>11. \A n \in 0..L : n # 0 => n \in 1..L /\ n - 1 \in 0..L
  BY <1>1
<1>12. g = F(g)
  <2>1. \A n \in 0..L : g[n] = F(g)[n]
    <3> HIDE DEF F, g, L
    <3> QED
      BY <1>6, <1>9, <1>10, <1>11
  <2>2. g = [n \in 0..L |-> g[n]]
    OBVIOUS
  <2> HIDE DEF F, g, L
  <2> QED
    BY <1>10, <2>1, <2>2
<1>13. walk = F(walk)
  <2> HIDE DEF F, g
  <2> QED
    BY <1>12
<1>14. ApplyInputs(e, target, todo, came, none, pos) = walk[L]
  BY DEF ApplyInputs
<1> HIDE DEF F, g, walk, ss, target, Here
<1>15. \A n \in 0..L : walk[n] = g[n]
  <2> DEFINE Bad == {n \in 0..L : walk[n] # g[n]}
  <2> SUFFICES ASSUME Bad # {} PROVE FALSE
    OBVIOUS
  <2>1. Bad \in SUBSET Nat
    BY <1>1
  <2>2. PICK n \in Bad : \A m \in Bad : n <= m
    <3> HIDE DEF Bad
    <3> QED
      BY <2>1, LeastElement
  <2> HIDE DEF L
  <2>3. n \in 0..L /\ walk[n] # g[n]
    BY <2>2
  <2>4. n # 0
    BY <1>6, <1>10, <1>13, <2>3
  <2>5. n \in 1..L /\ n - 1 \in 0..L
    BY <1>11, <2>3, <2>4
  <2>6. ~(n <= n - 1)
    BY <1>1, <2>5
  <2>7. walk[n - 1] = g[n - 1]
    BY <2>2, <2>5, <2>6
  <2>8. F(walk)[n] = g[n]
    BY <1>9, <2>5, <2>7
  <2> QED
    BY <1>13, <2>3, <2>8
<1>16. CASE 1..L \subseteq Fine
  <2>1. walk[L] = Step(TRUE, pos + off[L], Filled(e, L))
    <3> HIDE DEF L, Fine
    <3> QED
      BY <1>4, <1>8, <1>15, <1>16
  <2> QED
    BY <1>4, <1>14, <1>16, <2>1 DEF ss, target
<1>17. CASE ~(1..L \subseteq Fine)
  <2>1. walk[L].ok = FALSE
    <3> HIDE DEF L, Fine, stuck
    <3> QED
      BY <1>4, <1>c, <1>15, <1>17
  <2> QED
    BY <1>14, <1>17, <2>1 DEF target
<1> QED
  BY <1>16, <1>17

-----------------------------------------------------------------------------
(* The jobs of expressions.                                                *)

\* A query of a statement.
Formed(e) ==
  /\ e \in Query /\ Len(e.using) <= 1 /\ Len(e.names) = 2
  /\ e.op = "hybrid" => Len(e.inputs) = 1 /\ e.inputs[1].type = "text"
  /\ e.op = "rerank" => Len(e.inputs) = 1 /\ Len(e.model) = 1

\* The queries of a statement are formed so.
LEMMA StatementFormed ==
  ASSUME NEW t, IsStatement(t), NEW i \in 1..Len(t)
  PROVE  Formed(t[i])
<1>1. i \in DOMAIN t /\ t[i] \in Query
  BY StatementShape
<1>2. \A j \in DOMAIN t :
        /\ Len(t[j].using) <= 1 /\ Len(t[j].names) = 2
        /\ t[j].op = "hybrid" => Len(t[j].inputs) = 1 /\ t[j].inputs[1].type = "text"
        /\ t[j].op = "rerank" => Len(t[j].inputs) = 1 /\ Len(t[j].model) = 1
  BY Zenon DEF IsStatement
<1> QED
  BY <1>1, <1>2 DEF Formed

\* A target that is accepted is settled.
LEMMA TargetIs ==
  ASSUME NEW e, Formed(e), Target(e.using) # Error
  PROVE  Target(e.using) = Ok(Aim(e)) /\ Aim(e) \in AnyTarget
<1>1. e.using \in Seq(VectorTarget)
  BY DEF Formed, Query
<1>2. CASE e.using = <<>>
  BY <1>2 DEF Target, Aim, Ok, AnyTarget
<1>3. CASE e.using # <<>>
  <2>1. 1 \in 1..Len(e.using)
    BY <1>1, <1>3
  <2>2. e.using[1] \in VectorTarget
    BY <1>1, <2>1, ElementOfSeq
  <2>3. Target(e.using) = Ok([kind |-> e.using[1].kind, multi |-> e.using[1].multi])
    BY <1>3 DEF Target
  <2>4. e.using[1].kind # "none"
    BY <1>3 DEF Target
  <2> QED
    BY <2>2, <2>3, <2>4 DEF Aim, Ok, AnyTarget, VectorTarget
<1> QED
  BY <1>2, <1>3

\* A model is a number.
LEMMA ModelOrNat ==
  ASSUME NEW m \in Seq(Nat), NEW d \in Nat
  PROVE  ModelOr(m, d) \in Nat
<1>1. CASE m = <<>>
  BY <1>1 DEF ModelOr
<1>2. CASE m # <<>>
  <2>1. 1 \in 1..Len(m)
    BY <1>2
  <2>2. m[1] \in Nat
    BY <2>1, ElementOfSeq
  <2> QED
    BY <1>2, <2>2 DEF ModelOr
<1> QED
  BY <1>1, <1>2

\* The first walk finds the jobs of the inputs of an expression, in their order.
LEMMA InputsJobs ==
  ASSUME NEW e, Formed(e), e.op \in {"points", "rerank"}, ExprJobs(e) # Error
  PROVE  /\ Target(e.using) = Ok(Aim(e)) /\ JobLists(InputsOf(e)) /\ e.inputs \in Seq(Input)
         /\ JobsOf(e) = FlattenSeq(InputsOf(e)) /\ ExprJobs(e) = Ok(FlattenSeq(InputsOf(e)))
         /\ \A k \in 1..Len(e.inputs) : e.inputs[k].type = "image" => ImageFits(Aim(e))
<1>1. Target(e.using) # Error
  BY DEF ExprJobs
<1>2. Target(e.using) = Ok(Aim(e)) /\ Aim(e) \in AnyTarget
  BY <1>1, TargetIs
<1>3. e.inputs \in Seq(Input) /\ e.model \in Seq(Nat)
  BY DEF Formed, Query
<1>4. Len(e.inputs) \in Nat /\ DOMAIN e.inputs = 1..Len(e.inputs) /\ \A k \in 1..Len(e.inputs) : e.inputs[k] \in Input
  BY <1>3, LenProperties, ElementOfSeq
<1>5. DefaultModel(e) \in Nat
  <2>1. CASE e.op = "rerank"
    <3>a. Len(e.model) = 1
      BY <2>1, Zenon DEF Formed
    <3>1. 1 \in 1..Len(e.model)
      BY <3>a
    <3>2. e.model[1] \in Nat
      BY <1>3, <3>1, ElementOfSeq
    <3> QED
      BY <2>1, <3>2 DEF DefaultModel
  <2> QED
    BY <2>1 DEF DefaultModel
<1> DEFINE results == [k \in DOMAIN e.inputs |-> InputJobs(e.inputs[k], Aim(e), DefaultModel(e))]
<1>6. ExprJobs(e) = Concat(results)
  <2>1. Target(e.using)[1] = Aim(e)
    BY DEF Aim
  <2>2. ExprJobs(e) = IF Target(e.using) = Error THEN Error
                      ELSE IF e.op = "rerank" /\ Target(e.using)[1].kind = "sparse" THEN Error
                      ELSE Concat([k \in DOMAIN e.inputs |->
                                     InputJobs(e.inputs[k], Target(e.using)[1], DefaultModel(e))])
    <3>1. CASE e.op = "points"
      BY <3>1 DEF ExprJobs
    <3>2. CASE e.op = "rerank"
      BY <3>2 DEF ExprJobs
    <3> QED
      BY <3>1, <3>2
  <2> QED
    BY <1>1, <2>1, <2>2
<1>7. ASSUME NEW k \in 1..Len(e.inputs)
      PROVE  /\ results[k][1] = InputJob(e.inputs[k], Aim(e), DefaultModel(e))
             /\ e.inputs[k].type = "image" => ImageFits(Aim(e))
  <2>1. DOMAIN results = 1..Len(e.inputs)
    BY <1>4
  <2>2. results[k] = InputJobs(e.inputs[k], Aim(e), DefaultModel(e))
    BY <1>4
  <2>3. results[k] # Error
    <3> HIDE DEF results
    <3> QED
      BY <1>6, <2>1, ConcatIs
  <2>4. InputJobs(e.inputs[k], Aim(e), DefaultModel(e)) # Error
    BY <2>2, <2>3
  <2>5. /\ InputJobs(e.inputs[k], Aim(e), DefaultModel(e)) = Ok(InputJob(e.inputs[k], Aim(e), DefaultModel(e)))
        /\ e.inputs[k].type = "image" => ImageFits(Aim(e))
    BY <1>4, <2>4, InputJobsIs
  <2> HIDE DEF results
  <2> QED
    BY <2>2, <2>5, ErrorIsNotOk
<1>8. [k \in DOMAIN results |-> results[k][1]] = InputsOf(e)
  <2>1. DOMAIN results = 1..Len(e.inputs)
    BY <1>4
  <2> HIDE DEF results
  <2> QED
    BY <1>4, <1>7, <2>1 DEF InputsOf
<1>9. ExprJobs(e) = Ok(FlattenSeq(InputsOf(e)))
  <2> HIDE DEF results
  <2> QED
    BY <1>6, <1>8, ConcatIs
<1>10. JobLists(InputsOf(e))
  <2>1. \A k \in 1..Len(e.inputs) : InputJob(e.inputs[k], Aim(e), DefaultModel(e)) \in Seq(AnyJob)
    BY <1>2, <1>4, <1>5, InputJobType
  <2>2. InputsOf(e) = [k \in 1..Len(e.inputs) |-> InputJob(e.inputs[k], Aim(e), DefaultModel(e))]
    BY <1>4 DEF InputsOf
  <2> QED
    BY <1>4, <2>1, <2>2, IsASeq DEF JobLists
<1>11. JobsOf(e) = FlattenSeq(InputsOf(e))
  BY DEF JobsOf, InputsOf
<1>12. \A k \in 1..Len(e.inputs) : e.inputs[k].type = "image" => ImageFits(Aim(e))
  BY <1>7
<1> QED
  BY <1>2, <1>3, <1>9, <1>10, <1>11, <1>12

\* The first walk finds the jobs of an expression (ExprJobs).
LEMMA ExprJobsIs ==
  ASSUME NEW e, Formed(e), ExprJobs(e) # Error
  PROVE  ExprJobs(e) = Ok(JobsOf(e)) /\ JobsOf(e) \in Seq(AnyJob)
<1>1. CASE e.op \in {"points", "rerank"}
  <2>1. ExprJobs(e) = Ok(JobsOf(e)) /\ JobsOf(e) = FlattenSeq(InputsOf(e)) /\ JobLists(InputsOf(e))
    BY <1>1, InputsJobs
  <2> QED
    BY <2>1, Flattened DEF JobLists
<1>2. CASE e.op = "hybrid"
  <2>1. ~e.inputs[1].unbound
    BY <1>2 DEF ExprJobs
  <2>2. e.inputs \in Seq(Input) /\ 1 \in 1..Len(e.inputs) /\ e.inputs[1].type = "text" /\ e.model \in Seq(Nat)
    BY <1>2 DEF Formed, Query
  <2>3. e.inputs[1] \in Input
    BY <2>2, ElementOfSeq
  <2>4. e.inputs[1].text \in STRING
    BY <2>2, <2>3 DEF Input
  <2>5. ModelOr(e.model, 0) \in Nat
    BY <2>2, ModelOrNat
  <2>6. Job("dense", ModelOr(e.model, 0), e.inputs[1].text) \in AnyJob
        /\ Job("sparse", ModelOr(e.model, 0), e.inputs[1].text) \in AnyJob
    BY <2>4, <2>5 DEF Job, AnyJob
  <2>7. JobsOf(e) \in Seq(AnyJob)
    BY <1>2, <2>6 DEF JobsOf
  <2>8. ExprJobs(e) = Ok(JobsOf(e))
    BY <1>2, <2>1 DEF ExprJobs, JobsOf
  <2> QED
    BY <2>7, <2>8
<1>3. CASE e.op \notin {"points", "rerank", "hybrid"}
  <2>1. JobsOf(e) = <<>> /\ ExprJobs(e) = Ok(<<>>)
    BY <1>3 DEF JobsOf, ExprJobs
  <2> QED
    BY <2>1, EmptySeq
<1> QED
  BY <1>1, <1>2, <1>3

\* The second walk embeds an expression the first one has found the jobs of and
\* moves past them, or refuses an empty vector (ApplyExpr).
LEMMA ApplyExprIs ==
  ASSUME NEW e, Formed(e), ExprJobs(e) # Error,
         NEW todo, NEW came, NEW none, NEW pos, Len(todo) \in Nat,
         Answered(todo, came), ComeNext(todo, pos, JobsOf(e))
  PROVE  IF SparedExpr(e, none)
         THEN ApplyExpr(e, todo, came, none, pos) = Step(TRUE, pos + Len(JobsOf(e)), EmbeddedExpr(e))
         ELSE ApplyExpr(e, todo, came, none, pos).ok = FALSE
<1>1. CASE e.op \in {"points", "rerank"}
  <2>1. /\ Target(e.using) = Ok(Aim(e)) /\ JobLists(InputsOf(e)) /\ e.inputs \in Seq(Input)
        /\ JobsOf(e) = FlattenSeq(InputsOf(e))
        /\ \A k \in 1..Len(e.inputs) : e.inputs[k].type = "image" => ImageFits(Aim(e))
    BY <1>1, InputsJobs
  <2>2. ComeNext(todo, pos, FlattenSeq(InputsOf(e)))
    BY <2>1
  <2> DEFINE r == ApplyInputs(e, Aim(e), todo, came, none, pos)
             fine == 1..Len(e.inputs) \subseteq FineInputs(e, none)
  <2>a. DOMAIN e.inputs = 1..Len(e.inputs) /\ Len(e.inputs) \in Nat
    BY <2>1, LenProperties
  <2>b. SparedExpr(e, none) <=> fine
    BY <1>1, <2>a DEF SparedExpr, FineInputs, Aim
  <2>3. IF fine THEN r = Step(TRUE, pos + Len(JobsOf(e)), Filled(e, Len(e.inputs))) ELSE r.ok = FALSE
    <3>1. IF fine THEN r = Step(TRUE, pos + Len(FlattenSeq(InputsOf(e))), Filled(e, Len(e.inputs)))
          ELSE r.ok = FALSE
      BY <2>1, <2>2, ApplyInputsIs
    <3> HIDE DEF r, fine
    <3> QED
      BY <2>1, <3>1
  <2>4. ApplyExpr(e, todo, came, none, pos) = Step(r.ok, r.at, [e EXCEPT !.inputs = r.val])
    <3>1. Target(e.using) # Error /\ Target(e.using)[1] = Aim(e)
      BY <2>1, ErrorIsNotOk
    <3> QED
      BY <1>1, <3>1 DEF ApplyExpr
  <2>5. fine => r.ok = TRUE /\ r.at = pos + Len(JobsOf(e)) /\ r.val = Filled(e, Len(e.inputs))
    <3> HIDE DEF r, fine
    <3> QED
      BY <2>3 DEF Step
  <2>6. Filled(e, Len(e.inputs))
          = [i \in DOMAIN e.inputs |-> OwnVector(e.inputs[i], Aim(e), DefaultModel(e))]
    <3>2. \A k \in DOMAIN e.inputs : k <= Len(e.inputs)
      BY <2>a
    <3> QED
      BY <3>2 DEF Filled
  <2>7. EmbeddedExpr(e)
          = [e EXCEPT !.inputs = [i \in DOMAIN e.inputs |-> OwnVector(e.inputs[i], Aim(e), DefaultModel(e))]]
    BY <1>1 DEF EmbeddedExpr, Aim
  <2>8. ~fine => ApplyExpr(e, todo, came, none, pos).ok = FALSE
    <3> HIDE DEF r, fine
    <3> QED
      BY <2>3, <2>4 DEF Step
  <2>9. fine => ApplyExpr(e, todo, came, none, pos) = Step(TRUE, pos + Len(JobsOf(e)), EmbeddedExpr(e))
    <3> HIDE DEF r, fine
    <3> QED
      BY <2>4, <2>5, <2>6, <2>7
  <2> HIDE DEF r, fine
  <2> QED
    BY <2>b, <2>8, <2>9
<1>2. CASE e.op = "hybrid"
  <2> DEFINE m == ModelOr(e.model, 0)
             text == e.inputs[1].text
             d == Job("dense", m, text)
             s == Job("sparse", m, text)
  <2>1. JobsOf(e) = <<d, s>> /\ Len(<<d, s>>) = 2 /\ <<d, s>>[1] = d /\ <<d, s>>[2] = s
    BY <1>2 DEF JobsOf
  <2>2. pos \in Nat \ {0}
    BY DEF ComeNext
  <2>3. pos \in 1..Len(todo) /\ todo[pos] = d /\ pos + 1 \in 1..Len(todo) /\ todo[pos + 1] = s
    <3> HIDE DEF d, s
    <3>1. \A j \in 1..2 : (pos - 1) + j \in 1..Len(todo) /\ todo[(pos - 1) + j] = <<d, s>>[j]
      BY <2>1 DEF ComeNext
    <3>2. 1 \in 1..2 /\ 2 \in 1..2 /\ (pos - 1) + 1 = pos /\ (pos - 1) + 2 = pos + 1
      BY <2>2
    <3> QED
      BY <2>1, <3>1, <3>2
  <2>4. d.modality = "dense" /\ s.modality = "sparse"
        /\ VecOf(d) = Vec("dense", m, text) /\ VecOf(s) = Vec("sparse", m, text)
    BY DEF Job, VecOf
  <2> HIDE DEF d, s, m, text
  <2>5. Take("dense", todo, came, pos) = Step(TRUE, pos + 1, VecOf(d))
    BY <2>3, <2>4, TakeIs
  <2>6. Take("sparse", todo, came, pos + 1) = Step(TRUE, (pos + 1) + 1, VecOf(s))
    BY <2>3, <2>4, TakeIs
  <2> DEFINE dense == Take("dense", todo, came, pos)
             sparse == Take("sparse", todo, came, dense.at)
  <2>7. ApplyExpr(e, todo, came, none, pos)
          = IF dense.ok /\ sparse.ok
            THEN Step(TRUE, sparse.at, HybridOf(e, dense.val, sparse.val)) ELSE Step(FALSE, pos, e)
    BY <1>2 DEF ApplyExpr
  <2>8. dense.ok = TRUE /\ dense.at = pos + 1 /\ dense.val = VecOf(d)
    BY <2>5 DEF Step
  <2>9. sparse.ok = TRUE /\ sparse.at = (pos + 1) + 1 /\ sparse.val = VecOf(s)
    <3> HIDE DEF dense
    <3> QED
      BY <2>6, <2>8 DEF Step
  <2>10. EmbeddedExpr(e) = HybridOf(e, Vec("dense", m, text), Vec("sparse", m, text))
    BY <1>2 DEF EmbeddedExpr, m, text
  <2>11. (pos + 1) + 1 = pos + Len(JobsOf(e))
    BY <2>1, <2>2
  <2>12. SparedExpr(e, none)
    BY <1>2 DEF SparedExpr
  <2> HIDE DEF dense, sparse
  <2> QED
    BY <2>12, <2>4, <2>7, <2>8, <2>9, <2>10, <2>11
<1>3. CASE e.op \notin {"points", "rerank", "hybrid"}
  <2>1. JobsOf(e) = <<>> /\ Len(<<>>) = 0
    BY <1>3 DEF JobsOf
  <2>2. pos + 0 = pos
    BY DEF ComeNext
  <2>3. ApplyExpr(e, todo, came, none, pos) = Step(TRUE, pos, e) /\ EmbeddedExpr(e) = e
        /\ SparedExpr(e, none)
    BY <1>3 DEF ApplyExpr, EmbeddedExpr, SparedExpr
  <2> QED
    BY <2>1, <2>2, <2>3
<1> QED
  BY <1>1, <1>2, <1>3

-----------------------------------------------------------------------------
(* The two walks of a statement.                                           *)

\* The jobs of each query, in the order of the walk.
WalkJobs(t) == [n \in DOMAIN Collected(t) |-> JobsOf(t[Collected(t)[n]])]

\* The jobs of a statement are those of its queries, in the order of the walk
\* (QueryJobs).
LEMMA QueryJobsAre ==
  ASSUME NEW t, IsStatement(t), QueryJobs(t) # Error
  PROVE  /\ QueryJobs(t) = Ok(FlattenSeq(WalkJobs(t))) /\ JobLists(WalkJobs(t))
         /\ Len(WalkJobs(t)) = Len(Collected(t)) /\ FlattenSeq(WalkJobs(t)) \in Seq(AnyJob)
         /\ \A n \in 1..Len(Collected(t)) : ExprJobs(t[Collected(t)[n]]) # Error
<1> DEFINE o == Collected(t)
           L == Len(o)
           results == [n \in DOMAIN o |-> ExprJobs(t[o[n]])]
<1>1. o \in Seq(1..Len(t)) /\ L \in Nat /\ DOMAIN o = 1..L
  <2>1. o \in Seq(1..Len(t))
    BY WalkOnce
  <2> HIDE DEF o
  <2> QED
    BY <2>1, LenProperties
<1>2. \A n \in 1..L : o[n] \in 1..Len(t)
  <2> HIDE DEF o
  <2> QED
    BY <1>1, ElementOfSeq
<1>3. \A n \in 1..L : Formed(t[o[n]])
  <2> HIDE DEF o, L
  <2> QED
    BY <1>2, StatementFormed
<1>4. QueryJobs(t) = Concat(results)
  BY DEF QueryJobs
<1>5. DOMAIN results = 1..L /\ \A n \in 1..L : results[n] = ExprJobs(t[o[n]])
  BY <1>1
<1>6. /\ \A n \in DOMAIN results : results[n] # Error
      /\ Concat(results) = Ok(FlattenSeq([n \in DOMAIN results |-> results[n][1]]))
  <2> HIDE DEF results
  <2> QED
    BY <1>4, ConcatIs
<1>7. \A n \in 1..L : ExprJobs(t[o[n]]) # Error
  <2> HIDE DEF results, o, L
  <2> QED
    BY <1>5, <1>6
<1>8. \A n \in 1..L : ExprJobs(t[o[n]]) = Ok(JobsOf(t[o[n]])) /\ JobsOf(t[o[n]]) \in Seq(AnyJob)
  <2> HIDE DEF o, L
  <2> QED
    BY <1>3, <1>7, ExprJobsIs
<1>9. [n \in DOMAIN results |-> results[n][1]] = WalkJobs(t)
  <2>1. \A n \in 1..L : results[n][1] = JobsOf(t[o[n]])
    <3> HIDE DEF results, o, L
    <3> QED
      BY <1>5, <1>8, ErrorIsNotOk
  <2>2. WalkJobs(t) = [n \in 1..L |-> JobsOf(t[o[n]])]
    BY <1>1 DEF WalkJobs
  <2> HIDE DEF results, o, L
  <2> QED
    BY <1>5, <2>1, <2>2
<1>10. WalkJobs(t) \in Seq(Seq(AnyJob)) /\ Len(WalkJobs(t)) = L
  <2>1. WalkJobs(t) = [n \in 1..L |-> JobsOf(t[o[n]])]
    BY <1>1 DEF WalkJobs
  <2> HIDE DEF o, L
  <2>2. WalkJobs(t) \in [1..L -> Seq(AnyJob)]
    BY <1>8, <2>1
  <2> QED
    BY <1>1, <2>1, <2>2, SeqDef, LenProperties
<1>11. FlattenSeq(WalkJobs(t)) \in Seq(AnyJob)
  BY <1>10, Flattened
<1> HIDE DEF results
<1> QED
  BY <1>4, <1>6, <1>7, <1>9, <1>10, <1>11 DEF JobLists

\* The tree after the first n queries of the walk.
Grown(t, n) ==
  [i \in DOMAIN t |-> IF \E m \in 1..n : Collected(t)[m] = i THEN EmbeddedExpr(t[i]) ELSE t[i]]

\* The walk starts with the tree, each query turns the tree before it into the one
\* after it, and at its end every query is embedded.
LEMMA GrownIs ==
  ASSUME NEW t, IsStatement(t)
  PROVE  /\ Grown(t, 0) = t /\ Grown(t, Len(Collected(t))) = Embedded(t)
         /\ \A n \in 1..Len(Collected(t)) :
              /\ Grown(t, n - 1)[Collected(t)[n]] = t[Collected(t)[n]]
              /\ [Grown(t, n - 1) EXCEPT ![Collected(t)[n]] = EmbeddedExpr(t[Collected(t)[n]])] = Grown(t, n)
<1>1. PICK o : o = Collected(t)
  OBVIOUS
<1>2. o \in Seq(1..Len(t)) /\ Distinct(o) /\ Rng(o) = 1..Len(t)
  BY <1>1, WalkOnce
<1>3. Len(o) \in Nat /\ \A n \in 1..Len(o) : o[n] \in 1..Len(t)
  BY <1>2, LenProperties, ElementOfSeq
<1>4. DOMAIN t = 1..Len(t) /\ t = [i \in 1..Len(t) |-> t[i]]
  <2>1. t \in Seq(Query)
    BY DEF IsStatement
  <2> QED
    BY <2>1, LenProperties
<1>5. Grown(t, 0) = t
  <2>1. 1..0 = {}
    OBVIOUS
  <2> QED
    BY <1>4, <2>1 DEF Grown
<1>6. Grown(t, Len(o)) = Embedded(t)
  <2>1. \A i \in DOMAIN t : \E m \in 1..Len(o) : o[m] = i
    BY <1>2, <1>4 DEF Rng
  <2> QED
    BY <1>1, <2>1 DEF Grown, Embedded
<1>7. ASSUME NEW n \in 1..Len(o)
      PROVE  /\ Grown(t, n - 1)[o[n]] = t[o[n]]
             /\ [Grown(t, n - 1) EXCEPT ![o[n]] = EmbeddedExpr(t[o[n]])] = Grown(t, n)
  <2>1. 1..n = 1..(n - 1) \union {n} /\ n \notin 1..(n - 1) /\ 1..(n - 1) \subseteq 1..Len(o)
    BY <1>3
  <2>2. ~\E m \in 1..(n - 1) : o[m] = o[n]
    <3> SUFFICES ASSUME NEW m \in 1..(n - 1), o[m] = o[n] PROVE FALSE
      OBVIOUS
    <3>1. m = n
      BY <1>2, <2>1, Zenon DEF Distinct
    <3> QED
      BY <2>1, <3>1
  <2>3. o[n] \in DOMAIN t
    BY <1>3, <1>4
  <2>4. Grown(t, n - 1)[o[n]] = t[o[n]]
    BY <1>1, <2>2, <2>3 DEF Grown
  <2>5. \A i \in DOMAIN t : (\E m \in 1..n : o[m] = i) <=> (i = o[n] \/ \E m \in 1..(n - 1) : o[m] = i)
    BY <2>1
  <2>6. [Grown(t, n - 1) EXCEPT ![o[n]] = EmbeddedExpr(t[o[n]])] = Grown(t, n)
    <3> DEFINE Was(i) == \E m \in 1..(n - 1) : o[m] = i
               Now(i) == \E m \in 1..n : o[m] = i
    <3>1. Grown(t, n - 1) = [i \in DOMAIN t |-> IF Was(i) THEN EmbeddedExpr(t[i]) ELSE t[i]]
      BY <1>1 DEF Grown
    <3>2. Grown(t, n) = [i \in DOMAIN t |-> IF Now(i) THEN EmbeddedExpr(t[i]) ELSE t[i]]
      BY <1>1 DEF Grown
    <3>3. \A i \in DOMAIN t : Now(i) <=> (i = o[n] \/ Was(i))
      BY <2>5
    <3> HIDE DEF Was, Now
    <3> QED
      BY <2>3, <3>1, <3>2, <3>3
  <2> QED
    BY <2>4, <2>6
<1> QED
  BY <1>1, <1>5, <1>6, <1>7

\* The two walks agree (Collected and Applied, resolve_query.rs): when every job the
\* first walk has found has its vector, the second one puts each where it belongs and
\* its cursor never refuses one; it fails exactly when a vector it looks at is empty,
\* for every tree of queries.
THEOREM WalksAgree ==
  ASSUME NEW t, IsStatement(t), NEW todo, NEW came, NEW none,
         QueryJobs(t) = Ok(todo), Answered(todo, came)
  PROVE  Apply(t, todo, came, none) = IF SparedAll(t, none) THEN Ok(Embedded(t)) ELSE Error
<1> DEFINE o == Applied(t)
           L == Len(o)
           ss == WalkJobs(t)
           Fine == {n \in 1..Len(o) : SparedExpr(t[o[n]], none)}
           F(f) == [n \in 0..Len(o) |->
                      IF n = 0 THEN Step(TRUE, 1, t)
                      ELSE IF ~f[n - 1].ok THEN f[n - 1]
                      ELSE LET i == o[n]
                               r == ApplyExpr(f[n - 1].val[i], todo, came, none, f[n - 1].at)
                           IN  Step(r.ok, r.at, [f[n - 1].val EXCEPT ![i] = r.val])]
           walk == CHOOSE f : f = F(f)
<1>1. o = Collected(t) /\ o \in Seq(1..Len(t))
  BY WalkOnce
<1>2. L \in Nat /\ DOMAIN o = 1..L /\ \A n \in 1..L : o[n] \in 1..Len(t)
  <2> HIDE DEF o
  <2> QED
    BY <1>1, LenProperties, ElementOfSeq
<1>3. /\ JobLists(ss) /\ Len(ss) = L /\ todo = FlattenSeq(ss) /\ todo \in Seq(AnyJob)
      /\ \A n \in 1..L : ExprJobs(t[o[n]]) # Error /\ ss[n] = JobsOf(t[o[n]])
  <2>1. QueryJobs(t) # Error
    BY ErrorIsNotOk
  <2>2. /\ QueryJobs(t) = Ok(FlattenSeq(WalkJobs(t))) /\ JobLists(WalkJobs(t))
        /\ Len(WalkJobs(t)) = Len(Collected(t)) /\ FlattenSeq(WalkJobs(t)) \in Seq(AnyJob)
        /\ \A n \in 1..Len(Collected(t)) : ExprJobs(t[Collected(t)[n]]) # Error
    BY <2>1, QueryJobsAre
  <2>3. todo = FlattenSeq(ss)
    <3>1. Ok(todo)[1] = todo /\ Ok(FlattenSeq(ss))[1] = FlattenSeq(ss) /\ Ok(todo) = Ok(FlattenSeq(ss))
      BY <2>2 DEF Ok
    <3> QED
      BY <3>1
  <2>4. \A n \in 1..L : ss[n] = JobsOf(t[o[n]])
    BY <1>1, <1>2 DEF WalkJobs
  <2> HIDE DEF o, ss
  <2> QED
    BY <1>1, <2>2, <2>3, <2>4 DEF ss
<1>4. PICK off : Offsets(off, ss, todo)
  <2>1. ss \in Seq(Seq(AnyJob))
    BY <1>3 DEF JobLists
  <2> HIDE DEF ss
  <2> QED
    BY <1>3, <2>1, Flattened
<1>5. Len(todo) \in Nat
  BY <1>3, LenProperties
<1>6. ComeNext(todo, 1, todo)
  <2>1. \A j \in 1..Len(todo) : (1 - 1) + j = j
    BY <1>5
  <2>2. \A j \in 1..Len(todo) : (1 - 1) + j \in 1..Len(todo) /\ todo[(1 - 1) + j] = todo[j]
    BY <2>1, Zenon
  <2>3. 1 \in Nat \ {0}
    OBVIOUS
  <2> QED
    BY <2>2, <2>3, Zenon DEF ComeNext
<1>b. PICK b : /\ \A n \in 1..L : 1..(n - 1) \subseteq Fine /\ n \notin Fine => n = b
               /\ \A n \in 0..L : ~(1..n \subseteq Fine)
                                => b \in 1..n /\ 1..(b - 1) \subseteq Fine /\ b \notin Fine
  <2> HIDE DEF L, Fine
  <2> QED
    BY <1>2, FirstBad
<1> DEFINE Here(n) == ApplyExpr(t[o[n]], todo, came, none, 1 + off[n - 1])
           stuck == Step(Here(b).ok, Here(b).at, [Grown(t, b - 1) EXCEPT ![o[b]] = Here(b).val])
           g == [n \in 0..L |-> IF 1..n \subseteq Fine THEN Step(TRUE, 1 + off[n], Grown(t, n)) ELSE stuck]
<1>7. /\ off[0] = 0 /\ off[L] = Len(todo) /\ 0 \in 0..L /\ L \in 0..L
  <2>1. off[0] = 0 /\ off[Len(ss)] = Len(todo)
    BY <1>4 DEF Offsets
  <2> QED
    BY <1>2, <1>3, <2>1
<1>8. g[0] = Step(TRUE, 1, t)
  <2>1. Grown(t, 0) = t
    BY GrownIs
  <2>2. 1 + off[0] = 1 /\ 1..0 = {}
    BY <1>7
  <2>3. g[0] = Step(TRUE, 1 + off[0], Grown(t, 0))
    <3> HIDE DEF stuck, Fine, L
    <3> QED
      BY <1>7, <2>2
  <2> QED
    BY <2>1, <2>2, <2>3, Zenon
<1>9. \A n \in 1..L : /\ Grown(t, n - 1)[o[n]] = t[o[n]]
                      /\ [Grown(t, n - 1) EXCEPT ![o[n]] = EmbeddedExpr(t[o[n]])] = Grown(t, n)
  <2>1. \A n \in 1..Len(Collected(t)) :
          /\ Grown(t, n - 1)[Collected(t)[n]] = t[Collected(t)[n]]
          /\ [Grown(t, n - 1) EXCEPT ![Collected(t)[n]] = EmbeddedExpr(t[Collected(t)[n]])] = Grown(t, n)
    BY GrownIs
  <2>2. o = Collected(t)
    BY <1>1
  <2> HIDE DEF o
  <2> QED
    BY <2>1, <2>2
<1>10. ASSUME NEW n \in 1..L
       PROVE  IF n \in Fine THEN Here(n) = Step(TRUE, 1 + off[n], EmbeddedExpr(t[o[n]]))
              ELSE Here(n).ok = FALSE
  <2>1. ComeNext(todo, 1 + off[n - 1], ss[n]) /\ 1 + off[n] = (1 + off[n - 1]) + Len(ss[n])
    <3>1. n \in 1..Len(ss)
      BY <1>3
    <3> HIDE DEF ss
    <3> QED
      BY <1>3, <1>4, <1>6, <3>1, NextPart
  <2>2. PICK e, a : e = t[o[n]] /\ a = 1 + off[n - 1]
    OBVIOUS
  <2>3. Formed(e) /\ ExprJobs(e) # Error /\ ss[n] = JobsOf(e)
    <3>1. \A k \in 1..Len(t) : Formed(t[k])
      BY StatementFormed
    <3>2. PICK i : i = o[n]
      OBVIOUS
    <3>3. i \in 1..Len(t) /\ ExprJobs(t[i]) # Error /\ ss[n] = JobsOf(t[i]) /\ e = t[i]
      <4> HIDE DEF o, ss, L
      <4> QED
        BY <1>2, <1>3, <2>2, <3>2
    <3> HIDE DEF ss
    <3> QED
      BY <3>1, <3>3
  <2>4. ComeNext(todo, a, JobsOf(e))
    BY <2>1, <2>2, <2>3
  <2>5. IF SparedExpr(e, none)
        THEN ApplyExpr(e, todo, came, none, a) = Step(TRUE, a + Len(JobsOf(e)), EmbeddedExpr(e))
        ELSE ApplyExpr(e, todo, came, none, a).ok = FALSE
    BY <1>5, <2>3, <2>4, ApplyExprIs
  <2>6. n \in Fine <=> SparedExpr(e, none)
    <3> HIDE DEF o
    <3> QED
      BY <2>2
  <2>7. Here(n) = ApplyExpr(e, todo, came, none, a)
    BY <2>2
  <2> HIDE DEF o, ss, L, Here, Fine
  <2> QED
    BY <2>1, <2>2, <2>3, <2>5, <2>6, <2>7
<1>11. ASSUME NEW n \in 0..L, 1..n \subseteq Fine
       PROVE  g[n].ok = TRUE /\ g[n].at = 1 + off[n] /\ g[n].val = Grown(t, n)
              /\ g[n] = Step(TRUE, 1 + off[n], Grown(t, n))
  <2>1. g[n] = Step(TRUE, 1 + off[n], Grown(t, n))
    <3> HIDE DEF stuck, Fine, L
    <3> QED
      BY <1>11
  <2> HIDE DEF g
  <2> QED
    BY <2>1 DEF Step
<1>c. ASSUME NEW n \in 0..L, ~(1..n \subseteq Fine)
      PROVE  g[n] = stuck /\ stuck.ok = FALSE
  <2>1. b \in 1..n /\ b \notin Fine
    <3> HIDE DEF L, Fine
    <3> QED
      BY <1>b, <1>c
  <2>2. b \in 1..L
    <3> HIDE DEF L
    <3> QED
      BY <1>2, <2>1
  <2>3. Here(b).ok = FALSE
    <3> HIDE DEF Here, Fine, L, o
    <3> QED
      BY <1>10, <2>1, <2>2
  <2>4. g[n] = stuck
    <3> HIDE DEF stuck, Fine, L
    <3> QED
      BY <1>c
  <2> HIDE DEF Here
  <2> QED
    BY <2>3, <2>4 DEF Step
<1>12. ASSUME NEW n \in 1..L, NEW f, f[n - 1] = g[n - 1]
       PROVE  F(f)[n] = g[n]
  <2>1. n - 1 \in 0..L /\ n \in 0..L /\ n # 0 /\ 1..n = 1..(n - 1) \union {n}
    BY <1>2
  <2> DEFINE r == ApplyExpr(f[n - 1].val[o[n]], todo, came, none, f[n - 1].at)
  <2>2. F(f)[n] = IF ~f[n - 1].ok THEN f[n - 1]
                  ELSE Step(r.ok, r.at, [f[n - 1].val EXCEPT ![o[n]] = r.val])
    <3> HIDE DEF g, o
    <3> QED
      BY <2>1
  <2>3. CASE ~(1..(n - 1) \subseteq Fine)
    <3>1. g[n - 1] = stuck /\ stuck.ok = FALSE
      <4> HIDE DEF g, L, Fine, stuck
      <4> QED
        BY <1>c, <2>1, <2>3
    <3>2. g[n] = stuck
      <4> HIDE DEF g, L, Fine, stuck
      <4> QED
        BY <1>c, <2>1, <2>3
    <3> HIDE DEF F, g, r, stuck
    <3> QED
      BY <1>12, <2>2, <3>1, <3>2
  <2>4. CASE 1..(n - 1) \subseteq Fine
    <3>1. f[n - 1].ok = TRUE /\ f[n - 1].val = Grown(t, n - 1) /\ f[n - 1].at = 1 + off[n - 1]
      <4>1. g[n - 1].ok = TRUE /\ g[n - 1].at = 1 + off[n - 1] /\ g[n - 1].val = Grown(t, n - 1)
        <5> HIDE DEF g, L, Fine
        <5> QED
          BY <1>11, <2>1, <2>4
      <4> HIDE DEF g
      <4> QED
        BY <1>12, <4>1
    <3>2. r = Here(n)
      <4>1. f[n - 1].val[o[n]] = t[o[n]]
        <5> HIDE DEF g, L, o
        <5> QED
          BY <1>9, <3>1
      <4> HIDE DEF g, L, o
      <4> QED
        BY <3>1, <4>1
    <3>3. F(f)[n] = Step(Here(n).ok, Here(n).at, [Grown(t, n - 1) EXCEPT ![o[n]] = Here(n).val])
      <4> HIDE DEF F, r, Here, o
      <4> QED
        BY <2>2, <3>1, <3>2
    <3>4. CASE n \in Fine
      <4>1. 1..n \subseteq Fine
        <5> HIDE DEF Fine
        <5> QED
          BY <2>1, <2>4, <3>4
      <4>2. g[n] = Step(TRUE, 1 + off[n], Grown(t, n))
        <5> HIDE DEF g, L, Fine
        <5> QED
          BY <1>11, <2>1, <4>1
      <4>3. Here(n) = Step(TRUE, 1 + off[n], EmbeddedExpr(t[o[n]]))
        <5> HIDE DEF Here, L, Fine, o
        <5> QED
          BY <1>10, <3>4
      <4>4. Here(n).ok = TRUE /\ Here(n).at = 1 + off[n] /\ Here(n).val = EmbeddedExpr(t[o[n]])
        <5> HIDE DEF Here
        <5> QED
          BY <4>3 DEF Step
      <4>5. [Grown(t, n - 1) EXCEPT ![o[n]] = EmbeddedExpr(t[o[n]])] = Grown(t, n)
        <5> HIDE DEF L, o
        <5> QED
          BY <1>9
      <4> HIDE DEF F, g, Here, o
      <4> QED
        BY <3>3, <4>2, <4>4, <4>5
    <3>5. CASE n \notin Fine
      <4>1. n = b
        <5> HIDE DEF L, Fine
        <5> QED
          BY <1>b, <2>4, <3>5
      <4>2. ~(1..n \subseteq Fine)
        <5> HIDE DEF Fine
        <5> QED
          BY <2>1, <3>5
      <4>3. g[n] = stuck
        <5> HIDE DEF g, L, Fine, stuck
        <5> QED
          BY <1>c, <2>1, <4>2
      <4> HIDE DEF F, g, Here, o
      <4> QED
        BY <3>3, <4>1, <4>3
    <3> QED
      BY <3>4, <3>5
  <2> QED
    BY <2>3, <2>4
<1>13. \A f : F(f) = [n \in 0..L |-> F(f)[n]] /\ F(f)[0] = Step(TRUE, 1, t)
  <2> HIDE DEF o
  <2> QED
    BY <1>7
<1>14. \A n \in 0..L : n # 0 => n \in 1..L /\ n - 1 \in 0..L
  BY <1>2
<1>15. g = F(g)
  <2>1. \A n \in 0..L : g[n] = F(g)[n]
    <3> HIDE DEF F, g, L
    <3> QED
      BY <1>8, <1>12, <1>13, <1>14
  <2>2. g = [n \in 0..L |-> g[n]]
    OBVIOUS
  <2> HIDE DEF F, g, L
  <2> QED
    BY <1>13, <2>1, <2>2
<1>16. walk = F(walk)
  <2> HIDE DEF F, g
  <2> QED
    BY <1>15
<1>17. ApplyQuery(t, todo, came, none) = walk[L]
  BY DEF ApplyQuery
<1> HIDE DEF F, g, walk, ss, o, Here, stuck
<1>18. \A n \in 0..L : walk[n] = g[n]
  <2> DEFINE Bad == {n \in 0..L : walk[n] # g[n]}
  <2> SUFFICES ASSUME Bad # {} PROVE FALSE
    OBVIOUS
  <2>1. Bad \in SUBSET Nat
    BY <1>2
  <2>2. PICK n \in Bad : \A m \in Bad : n <= m
    <3> HIDE DEF Bad
    <3> QED
      BY <2>1, LeastElement
  <2> HIDE DEF L
  <2>3. n \in 0..L /\ walk[n] # g[n]
    BY <2>2
  <2>4. n # 0
    BY <1>8, <1>13, <1>16, <2>3
  <2>5. n \in 1..L /\ n - 1 \in 0..L
    BY <1>14, <2>3, <2>4
  <2>6. ~(n <= n - 1)
    BY <1>2, <2>5
  <2>7. walk[n - 1] = g[n - 1]
    BY <2>2, <2>5, <2>6
  <2>8. F(walk)[n] = g[n]
    BY <1>12, <2>5, <2>7
  <2> QED
    BY <1>16, <2>3, <2>8
<1>19. 1..L \subseteq Fine <=> SparedAll(t, none)
  <2>1. DOMAIN t = 1..Len(t) /\ Rng(o) = 1..Len(t)
    BY StatementShape, WalkOnce, LenProperties DEF IsStatement, o
  <2>2. DOMAIN t = {o[n] : n \in 1..L}
    BY <2>1 DEF Rng
  <2>3. SparedAll(t, none) <=> \A i \in DOMAIN t : SparedExpr(t[i], none)
    BY DEF SparedAll
  <2>4. 1..L \subseteq Fine <=> \A n \in 1..L : SparedExpr(t[o[n]], none)
    OBVIOUS
  <2> HIDE DEF Fine, L
  <2> QED
    BY <2>2, <2>3, <2>4
<1> DEFINE r == ApplyQuery(t, todo, came, none)
<1>20. Apply(t, todo, came, none) = IF r.ok /\ r.at = Len(todo) + 1 THEN Ok(r.val) ELSE Error
  BY DEF Apply
<1>21. CASE SparedAll(t, none)
  <2>1. walk[L] = Step(TRUE, 1 + off[L], Grown(t, L))
    <3> HIDE DEF L, Fine
    <3> QED
      BY <1>7, <1>11, <1>18, <1>19, <1>21
  <2>2. Grown(t, L) = Embedded(t)
    <3>1. L = Len(Collected(t))
      BY <1>1
    <3> QED
      BY <3>1, GrownIs
  <2>3. 1 + off[L] = Len(todo) + 1
    BY <1>5, <1>7
  <2>4. r = Step(TRUE, Len(todo) + 1, Embedded(t))
    <3> HIDE DEF L
    <3> QED
      BY <1>17, <2>1, <2>2, <2>3
  <2>5. r.ok = TRUE /\ r.at = Len(todo) + 1 /\ r.val = Embedded(t)
    <3> HIDE DEF r
    <3> QED
      BY <2>4 DEF Step
  <2> HIDE DEF r
  <2> QED
    BY <1>20, <1>21, <2>5
<1>22. CASE ~SparedAll(t, none)
  <2>1. walk[L].ok = FALSE
    <3> HIDE DEF L, Fine
    <3> QED
      BY <1>7, <1>c, <1>18, <1>19, <1>22
  <2>2. r.ok = FALSE
    BY <1>17, <2>1
  <2> HIDE DEF r
  <2> QED
    BY <1>20, <1>22, <2>2
<1> QED
  BY <1>21, <1>22

-----------------------------------------------------------------------------
(* Requests: the vectors of an answer are those of its jobs.               *)

\* The list of the jobs of a modality and a model.
ListsThem(ps, todo, modality, model) ==
  /\ ps \in Seq(1..Len(todo))
  /\ \A k \in 1..Len(ps) : todo[ps[k]].modality = modality /\ todo[ps[k]].model = model
  /\ \A i \in 1..Len(todo) : todo[i].modality = modality /\ todo[i].model = model
                             => \E k \in 1..Len(ps) : ps[k] = i

\* Positions lists exactly the jobs of a modality and a model.
LEMMA PositionsAre ==
  ASSUME NEW todo \in Seq(AnyJob), NEW modality, NEW model
  PROVE  ListsThem(Positions(todo, modality, model), todo, modality, model)
<1> DEFINE Fits(i) == todo[i].modality = modality /\ todo[i].model = model
           N == Len(todo)
           ss == [i \in DOMAIN todo |-> IF Fits(i) THEN <<i>> ELSE <<>>]
           ps == FlattenSeq(ss)
<1>1. N \in Nat /\ DOMAIN todo = 1..N
  BY LenProperties
<1>2. Positions(todo, modality, model) = ps
  BY DEF Positions
<1>3. ASSUME NEW i \in 1..N PROVE ss[i] = (IF Fits(i) THEN <<i>> ELSE <<>>) /\ ss[i] \in Seq(1..N)
  <2>1. ss[i] = IF Fits(i) THEN <<i>> ELSE <<>>
    BY <1>1
  <2>2. <<i>> \in Seq(1..N) /\ <<>> \in Seq(1..N)
    OBVIOUS
  <2> HIDE DEF ss, N, Fits
  <2> QED
    BY <2>1, <2>2
<1>4. ss \in [1..N -> Seq(1..N)]
  BY <1>1, <1>3
<1>5. ss \in Seq(Seq(1..N)) /\ Len(ss) = N
  <2> HIDE DEF ss, N
  <2> QED
    BY <1>1, <1>4, SeqDef, LenProperties
<1> HIDE DEF ss
<1>6. ps \in Seq(1..N)
  BY <1>5, Flattened
<1>7. PICK off : Offsets(off, ss, ps)
  BY <1>5, Flattened
<1>8. ASSUME NEW k \in 1..Len(ps) PROVE Fits(ps[k])
  <2>1. \E n \in 1..Len(ss) : \E j \in 1..Len(ss[n]) : k = off[n - 1] + j
    <3>1. PICK flat, B, tt : flat = ps /\ B = 1..N /\ tt = ss
      OBVIOUS
    <3>2. Offsets(off, tt, flat) /\ k \in 1..Len(flat) /\ Lists(B, tt)
      BY <1>5, <1>7, <3>1 DEF Lists
    <3> HIDE DEF ps, N
    <3>3. \A l \in 1..Len(flat) : \E n \in 1..Len(tt) : \E j \in 1..Len(tt[n]) : l = off[n - 1] + j
      BY <3>2, FlattenedPlace
    <3>4. \E n \in 1..Len(tt) : \E j \in 1..Len(tt[n]) : k = off[n - 1] + j
      BY <3>2, <3>3, Zenon
    <3> QED
      BY <3>1, <3>4, Zenon
  <2>2. PICK n \in 1..N : \E j \in 1..Len(ss[n]) : k = off[n - 1] + j
    BY <1>5, <2>1
  <2>3. PICK j \in 1..Len(ss[n]) : k = off[n - 1] + j
    BY <2>2
  <2>4. ps[k] = ss[n][j]
    <3>1. \A m \in 1..Len(ss) : \A i \in 1..Len(ss[m]) : ps[off[m - 1] + i] = ss[m][i]
      BY <1>7, Zenon DEF Offsets
    <3> HIDE DEF ps, N
    <3> QED
      BY <1>5, <2>3, <3>1
  <2>5. CASE Fits(n)
    <3>1. ss[n] = <<n>> /\ Len(<<n>>) = 1 /\ <<n>>[1] = n
      BY <1>3, <2>5
    <3>2. j = 1
      BY <2>3, <3>1
    <3> HIDE DEF ps
    <3> QED
      BY <2>4, <2>5, <3>1, <3>2
  <2>6. CASE ~Fits(n)
    <3>1. ss[n] = <<>> /\ Len(<<>>) = 0
      BY <1>3, <2>6
    <3> QED
      BY <2>3, <3>1
  <2> QED
    BY <2>5, <2>6
<1>9. ASSUME NEW i \in 1..N, Fits(i) PROVE \E k \in 1..Len(ps) : ps[k] = i
  <2>1. ss[i] = <<i>> /\ Len(<<i>>) = 1 /\ <<i>>[1] = i
    BY <1>3, <1>9
  <2>2. i \in 1..Len(ss) /\ 1 \in 1..Len(ss[i])
    BY <1>5, <2>1
  <2>3. /\ off[i - 1] \in Nat /\ off[i - 1] + 1 \in Nat /\ off[i - 1] < off[i - 1] + 1 /\ off[i - 1] + 1 <= off[i]
        /\ off[i] \in Nat
    <3> HIDE DEF ps, N
    <3> QED
      BY <1>5, <1>7, <2>2, PlaceInList
  <2>4. off[i] <= off[Len(ss)]
    <3>1. i \in 0..Len(ss) /\ Len(ss) \in i..Len(ss)
      BY <1>1, <1>5, <2>2
    <3> HIDE DEF ps, N
    <3> QED
      BY <1>5, <1>7, <3>1, OffsetsGrow
  <2>5. off[Len(ss)] = Len(ps) /\ Len(ps) \in Nat
    <3>1. Len(ps) \in Nat
      <4> HIDE DEF ps
      <4> QED
        BY <1>6, LenProperties
    <3> QED
      BY <1>7, <3>1 DEF Offsets
  <2>6. ps[off[i - 1] + 1] = ss[i][1]
    <3>1. \A m \in 1..Len(ss) : \A l \in 1..Len(ss[m]) : ps[off[m - 1] + l] = ss[m][l]
      BY <1>7, Zenon DEF Offsets
    <3> HIDE DEF ps, N
    <3> QED
      BY <2>2, <3>1
  <2>7. off[i - 1] + 1 \in 1..Len(ps)
    <3> HIDE DEF ps
    <3> QED
      BY <2>3, <2>4, <2>5
  <2> HIDE DEF ps
  <2> QED
    BY <2>1, <2>6, <2>7
<1> HIDE DEF ps
<1> QED
  BY <1>2, <1>6, <1>8, <1>9 DEF ListsThem

\* There is a next request while a vector is missing.
LEMMA NextIs ==
  ASSUME NEW todo \in Seq(AnyJob), NEW came, NEW z \in 1..Len(todo), came[z] = <<>>
  PROVE  \E i \in 1..Len(todo) :
           NextRequest(todo, came)
             = [modality |-> todo[i].modality, model |-> todo[i].model,
                positions |-> Positions(todo, todo[i].modality, todo[i].model)]
<1> DEFINE open == {i \in DOMAIN todo : came[i] = <<>>}
           rank(i) == CHOOSE k \in DOMAIN Modalities : Modalities[k] = todo[i].modality
           Before(i, j) == \/ rank(i) < rank(j)
                           \/ rank(i) = rank(j) /\ todo[i].model <= todo[j].model
           first == CHOOSE i \in open : \A j \in open : Before(i, j)
<1>1. DOMAIN todo = 1..Len(todo) /\ z \in open
  BY LenProperties
<1>2. ASSUME NEW i \in open PROVE rank(i) \in Nat /\ todo[i].model \in Nat
  <2>1. todo[i] \in AnyJob
    BY ElementOfSeq, <1>1
  <2>2. todo[i].model \in Nat /\ todo[i].modality \in {"dense", "sparse", "multi", "image"}
    BY <2>1 DEF AnyJob
  <2>3. DOMAIN Modalities = 1..4 /\ Modalities[1] = "dense" /\ Modalities[2] = "sparse"
        /\ Modalities[3] = "multi" /\ Modalities[4] = "image"
    BY DEF Modalities
  <2>4. \E k \in DOMAIN Modalities : Modalities[k] = todo[i].modality
    BY <2>2, <2>3
  <2>5. rank(i) \in DOMAIN Modalities
    BY <2>4
  <2> QED
    BY <2>2, <2>3, <2>5
<1> HIDE DEF rank
<1> DEFINE R == {rank(i) : i \in open}
<1>3. PICK r \in R : \A s \in R : r <= s
  <2>1. R \in SUBSET Nat /\ R # {}
    BY <1>1, <1>2
  <2> HIDE DEF R
  <2> QED
    BY <2>1, LeastElement
<1>4. PICK a \in open : rank(a) = r
  BY <1>3
<1> DEFINE M == {todo[i].model : i \in {h \in open : rank(h) = r}}
<1>5. PICK m \in M : \A l \in M : m <= l
  <2>1. M \in SUBSET Nat /\ M # {}
    BY <1>2, <1>4
  <2> HIDE DEF M
  <2> QED
    BY <2>1, LeastElement
<1>6. PICK b \in open : rank(b) = r /\ todo[b].model = m
  BY <1>5
<1>7. ASSUME NEW j \in open PROVE Before(b, j)
  <2>1. r <= rank(j) /\ rank(j) \in Nat /\ rank(b) \in Nat
    BY <1>2, <1>3
  <2>2. CASE rank(j) = r
    <3>1. m <= todo[j].model
      BY <1>5, <2>2
    <3> QED
      BY <1>6, <2>2, <3>1
  <2>3. CASE rank(j) # r
    BY <1>6, <2>1, <2>3
  <2> QED
    BY <2>2, <2>3
<1>8. first \in open
  <2> HIDE DEF open, Before
  <2> QED
    BY <1>7
<1>9. NextRequest(todo, came)
        = [modality |-> todo[first].modality, model |-> todo[first].model,
           positions |-> Positions(todo, todo[first].modality, todo[first].model)]
  BY DEF NextRequest, rank
<1>10. first \in 1..Len(todo)
  BY <1>1, <1>8
<1> HIDE DEF first
<1> QED
  BY <1>9, <1>10

\* A vector has come, or has not.
Coming(todo, came) ==
  /\ came = [i \in 1..Len(todo) |-> came[i]]
  /\ \A i \in 1..Len(todo) : came[i] \in {<<>>, <<VecOf(todo[i])>>}

\* The vectors of an answer are those of the jobs they go to.
LEMMA SpreadIs ==
  ASSUME NEW todo \in Seq(AnyJob), NEW came, Coming(todo, came),
         NEW z \in 1..Len(todo), came[z] = <<>>, NEW h,
         NEW request, request = NextRequest(todo, came),
         NEW inputs, inputs = [k \in DOMAIN request.positions |-> todo[request.positions[k]].input],
         NEW answer \in Answers(h, request.modality, request.model, inputs), answer # <<>>
  PROVE  Coming(todo, Spread(request, answer[1], came))
<1>1. PICK i \in 1..Len(todo) :
        request = [modality |-> todo[i].modality, model |-> todo[i].model,
                   positions |-> Positions(todo, todo[i].modality, todo[i].model)]
  BY NextIs
<1>2. PICK ps : ps = request.positions
  OBVIOUS
<1>3. request.modality = todo[i].modality /\ request.model = todo[i].model
      /\ ps = Positions(todo, todo[i].modality, todo[i].model)
  BY <1>1, <1>2
<1>4. /\ ps \in Seq(1..Len(todo))
      /\ \A k \in 1..Len(ps) : todo[ps[k]].modality = request.modality /\ todo[ps[k]].model = request.model
      /\ \A j \in 1..Len(todo) : todo[j].modality = request.modality /\ todo[j].model = request.model
                                 => \E k \in 1..Len(ps) : ps[k] = j
  <2>1. ListsThem(ps, todo, request.modality, request.model)
    BY <1>3, PositionsAre
  <2> QED
    BY <2>1 DEF ListsThem
<1>5. Len(ps) \in Nat /\ DOMAIN ps = 1..Len(ps) /\ \A k \in 1..Len(ps) : ps[k] \in 1..Len(todo)
  BY <1>4, LenProperties, ElementOfSeq
<1>6. Len(ps) > 0
  <2>1. \E k \in 1..Len(ps) : ps[k] = i
    BY <1>3, <1>4
  <2> QED
    BY <1>5, <2>1
<1>7. \A j \in 1..Len(todo) : todo[j].input \in STRING
  <2>1. \A j \in 1..Len(todo) : todo[j] \in AnyJob
    BY ElementOfSeq
  <2> QED
    BY <2>1 DEF AnyJob
<1>8. inputs = [k \in 1..Len(ps) |-> todo[ps[k]].input]
  BY <1>2, <1>5
<1>9. inputs \in Seq(STRING) /\ Len(inputs) = Len(ps)
  <2>1. inputs \in [1..Len(ps) -> STRING]
    BY <1>5, <1>7, <1>8
  <2>2. PICK n, B : n = Len(ps) /\ B = STRING
    OBVIOUS
  <2>3. n \in Nat /\ inputs \in [1..n -> B]
    BY <1>5, <2>1, <2>2
  <2>4. inputs \in Seq(B)
    BY <2>3, SeqDef
  <2>5. Len(inputs) = n
    BY <2>3
  <2> QED
    BY <2>2, <2>4, <2>5
<1>10. Right(answer, request.modality, request.model, inputs)
  BY <1>6, <1>9, AnswerWhole
<1>11. answer[1] = [k \in 1..Len(ps) |-> Vec(request.modality, request.model, inputs[k])]
  BY <1>9, <1>10 DEF Right
<1>12. PICK vecs : vecs = answer[1]
  OBVIOUS
<1>13. DOMAIN vecs = 1..Len(ps) /\ \A k \in 1..Len(ps) : vecs[k] = VecOf(todo[ps[k]])
  <2>1. \A k \in 1..Len(ps) : inputs[k] = todo[ps[k]].input
    BY <1>8
  <2>2. DOMAIN vecs = 1..Len(ps)
    BY <1>11, <1>12
  <2>3. \A k \in 1..Len(ps) : vecs[k] = Vec(request.modality, request.model, inputs[k])
    BY <1>11, <1>12
  <2>4. \A k \in 1..Len(ps) : VecOf(todo[ps[k]]) = Vec(request.modality, request.model, inputs[k])
    BY <1>4, <2>1, Zenon DEF VecOf
  <2> QED
    BY <2>2, <2>3, <2>4
<1> DEFINE next == Spread(request, vecs, came)
<1>14. next = [j \in 1..Len(todo) |->
                 IF \E k \in 1..Len(ps) : ps[k] = j
                 THEN <<vecs[CHOOSE k \in 1..Len(ps) : ps[k] = j]>> ELSE came[j]]
  <2>1. DOMAIN came = 1..Len(todo)
    BY DEF Coming
  <2> QED
    BY <1>2, <1>13, <2>1 DEF Spread
<1>15. ASSUME NEW j \in 1..Len(todo) PROVE next[j] \in {<<>>, <<VecOf(todo[j])>>}
  <2>1. CASE \E k \in 1..Len(ps) : ps[k] = j
    <3> DEFINE k == CHOOSE k \in 1..Len(ps) : ps[k] = j
    <3>1. k \in 1..Len(ps) /\ ps[k] = j
      BY <2>1
    <3>2. next[j] = <<vecs[k]>>
      BY <1>14, <2>1
    <3> HIDE DEF k, next
    <3> QED
      BY <1>13, <3>1, <3>2
  <2>2. CASE ~\E k \in 1..Len(ps) : ps[k] = j
    <3>1. next[j] = came[j]
      BY <1>14, <2>2
    <3> HIDE DEF next
    <3> QED
      BY <3>1 DEF Coming
  <2> QED
    BY <2>1, <2>2
<1>16. next = [j \in 1..Len(todo) |-> next[j]]
  <2> DEFINE G(j) == IF \E k \in 1..Len(ps) : ps[k] = j
                     THEN <<vecs[CHOOSE k \in 1..Len(ps) : ps[k] = j]>> ELSE came[j]
  <2>1. next = [j \in 1..Len(todo) |-> G(j)]
    BY <1>14
  <2> HIDE DEF next, G
  <2> QED
    BY <2>1
<1> HIDE DEF next
<1> QED
  BY <1>12, <1>15, <1>16 DEF Coming, next

-----------------------------------------------------------------------------
(* Targets that suit a collection.                                         *)

\* The names of vectors of a collection.
AreNames(names) ==
  /\ names \in [dense : SUBSET STRING, sparse : SUBSET STRING, multi : SUBSET STRING]
  /\ NoName \notin names.sparse /\ names.dense \intersect names.sparse = {}
  /\ IsFiniteSet(names.dense) /\ IsFiniteSet(names.sparse)

\* The names of a schema are such.
LEMMA SchemaNames ==
  ASSUME NEW s \in Schemas
  PROVE  AreNames(Names(s))
<1>1. /\ s \in [dense : SUBSET VectorNames, sparse : SUBSET VectorNames, multi : SUBSET VectorNames]
      /\ IsFiniteSet(VectorNames)
  BY UpsertAssumption
<1>2. NoName \notin s.sparse /\ s.dense \intersect s.sparse = {} /\ VectorNames \subseteq STRING
  BY QueryAssumption
<1>3. IsFiniteSet(s.dense) /\ IsFiniteSet(s.sparse)
  BY <1>1, FS_Subset
<1>4. s \in [dense : SUBSET STRING, sparse : SUBSET STRING, multi : SUBSET STRING]
  BY <1>1, <1>2
<1>5. CASE s.dense = {} /\ s.sparse = {}
  <2>1. IsFiniteSet({NoName})
    BY FS_Singleton
  <2>2. Names(s) = [s EXCEPT !.dense = {NoName}]
    BY <1>5 DEF Names
  <2>3. Names(s).dense = {NoName} /\ Names(s).sparse = {}
    BY <1>4, <1>5, <2>2
  <2>4. Names(s) \in [dense : SUBSET STRING, sparse : SUBSET STRING, multi : SUBSET STRING]
    <3>1. {NoName} \subseteq STRING
      BY QueryAssumption
    <3> QED
      BY <1>4, <2>2, <3>1
  <2> QED
    BY <1>3, <1>5, <2>1, <2>3, <2>4 DEF AreNames
<1>6. CASE ~(s.dense = {} /\ s.sparse = {})
  <2>1. Names(s) = s
    BY <1>6 DEF Names
  <2> QED
    BY <1>2, <1>3, <1>4, <2>1 DEF AreNames
<1> QED
  BY <1>5, <1>6

\* A target is of the kind and the class its collection has it, or is to be rows
\* because it was to be before.
Suits(names, was, using) ==
  /\ using \in Seq(VectorTarget) /\ Len(using) <= 1
  /\ IF using = <<>> THEN NoName \in names.dense
     ELSE /\ using[1].kind # "none"
          /\ KindOf(names, using[1].name) # "none" =>
               /\ using[1].kind = KindOf(names, using[1].name)
               /\ using[1].name \in names.multi => using[1].multi
          /\ using[1].multi => using[1].name \in names.multi \/ (was # <<>> /\ was[1].multi)

\* A target that agrees with the collection suits it.
LEMMA SingletonSuits ==
  ASSUME NEW names, NEW was, NEW target \in VectorTarget, target.kind # "none",
         KindOf(names, target.name) # "none" =>
           /\ target.kind = KindOf(names, target.name)
           /\ target.name \in names.multi => target.multi,
         target.multi => target.name \in names.multi \/ (was # <<>> /\ was[1].multi)
  PROVE  Suits(names, was, <<target>>)
<1>1. <<target>> \in Seq(VectorTarget) /\ Len(<<target>>) = 1 /\ <<target>> # <<>> /\ <<target>>[1] = target
  OBVIOUS
<1> QED
  BY <1>1 DEF Suits

\* A target that is named suits the collection when it is accepted.
LEMMA ResolveNamedSuits ==
  ASSUME NEW names, NEW target \in VectorTarget, NEW required,
         ResolveNamed(target, required, names) # Error
  PROVE  \E u : ResolveNamed(target, required, names) = Ok(u) /\ Suits(names, <<target>>, <<u>>)
<1>1. PICK actual, multi :
        /\ actual = KindOf(names, target.name)
        /\ multi = (target.multi \/ target.name \in names.multi)
  OBVIOUS
<1>2. actual \in {"none", "dense", "sparse"} /\ multi \in BOOLEAN
  BY <1>1 DEF KindOf
<1>a. <<target>> # <<>> /\ <<target>>[1] = target
  OBVIOUS
<1>3. CASE actual = "none"
  <2>1. ResolveNamed(target, required, names) = Ok(target) /\ target.kind # "none"
    BY <1>1, <1>3 DEF ResolveNamed
  <2> QED
    BY <1>1, <1>3, <1>a, <2>1, SingletonSuits
<1>4. CASE actual # "none"
  <2> DEFINE u == [target EXCEPT !.kind = actual, !.multi = multi]
  <2>1. ResolveNamed(target, required, names) = Ok(u)
    BY <1>1, <1>4 DEF ResolveNamed
  <2>2. u \in VectorTarget /\ u.name = target.name /\ u.kind = actual /\ u.multi = multi
    BY <1>2 DEF VectorTarget
  <2>3. /\ u.name \in names.multi => u.multi
        /\ u.multi => u.name \in names.multi \/ target.multi
    BY <1>1, <2>2
  <2> HIDE DEF u
  <2>4. Suits(names, <<target>>, <<u>>)
    BY <1>1, <1>4, <1>a, <2>2, <2>3, SingletonSuits
  <2> QED
    BY <2>1, <2>4
<1> QED
  BY <1>3, <1>4

\* A name that is chosen is one the collection has, of that kind.
LEMMA SelectIs ==
  ASSUME NEW names, AreNames(names), NEW kind, Select(names, kind) # Error
  PROVE  \E name \in STRING : \E k \in {"dense", "sparse"} :
           /\ Select(names, kind) = Ok([name |-> name, kind |-> k])
           /\ name \in (IF k = "dense" THEN names.dense ELSE names.sparse)
<1> DEFINE Of(k) == IF k = "dense" THEN names.dense ELSE names.sparse
           only == {k \in {"dense", "sparse"} : Cardinality(Of(k)) = 1}
           all == Cardinality(names.dense) + Cardinality(names.sparse)
           fits == IF kind = "none" THEN {k \in only : all = 1} ELSE only \intersect {kind}
           k == CHOOSE k \in fits : TRUE
           name == CHOOSE n \in Of(k) : TRUE
<1>1. fits # {} /\ Select(names, kind) = Ok([name |-> name, kind |-> k])
  BY DEF Select
<1>2. k \in fits
  <2> HIDE DEF fits
  <2> QED
    BY <1>1
<1>3. fits \subseteq only
  <2> HIDE DEF only
  <2> QED
    OBVIOUS
<1>4. k \in only
  BY <1>2, <1>3
<1> HIDE DEF k, fits
<1>5. k \in {"dense", "sparse"} /\ Cardinality(Of(k)) = 1
  BY <1>4
<1>6. Of(k) \subseteq STRING /\ IsFiniteSet(Of(k))
  BY DEF AreNames
<1>7. Of(k) # {}
  <2> HIDE DEF Of
  <2> QED
    BY <1>5, <1>6, FS_EmptySet
<1>8. name \in Of(k)
  <2> HIDE DEF Of
  <2> QED
    BY <1>7
<1>9. name \in STRING
  <2> HIDE DEF name, Of
  <2> QED
    BY <1>6, <1>8
<1> HIDE DEF name
<1> QED
  BY <1>1, <1>5, <1>8, <1>9

LEMMA OnlyOne == \A n \in Nat : n # 0 /\ n <= 1 => n = 1
  OBVIOUS

LEMMA OneElement == ASSUME NEW S, NEW s \in Seq(S), Len(s) = 1 PROVE s = <<s[1]>>
  OBVIOUS

\* So does every target that is accepted, named or chosen.
LEMMA ResolveUsingSuits ==
  ASSUME NEW names, AreNames(names), NEW using \in Seq(VectorTarget), Len(using) <= 1, NEW required,
         ResolveUsing(using, required, names) # Error
  PROVE  \E u : ResolveUsing(using, required, names) = Ok(u) /\ Suits(names, using, u)
<1>1. CASE using # <<>>
  <2>1. 1 \in 1..Len(using)
    BY <1>1
  <2>2. using[1] \in VectorTarget
    BY <2>1, ElementOfSeq
  <2> DEFINE r == ResolveNamed(using[1], required, names)
  <2>3. r # Error /\ ResolveUsing(using, required, names) = Ok(r)
    BY <1>1 DEF ResolveUsing
  <2>a. using = <<using[1]>>
    <3>1. Len(using) = 1
      <4>1. Len(using) \in Nat /\ Len(using) # 0
        BY <1>1, EmptySeq
      <4> QED
        BY <4>1, OnlyOne
    <3> QED
      BY <3>1, OneElement
  <2>4. PICK u : r = Ok(u) /\ Suits(names, using, <<u>>)
    <3>1. PICK u : r = Ok(u) /\ Suits(names, <<using[1]>>, <<u>>)
      BY <2>2, <2>3, ResolveNamedSuits
    <3> HIDE DEF r
    <3> QED
      BY <2>a, <3>1
  <2>5. r = <<u>>
    BY <2>4 DEF Ok
  <2> HIDE DEF r
  <2> QED
    BY <2>3, <2>4, <2>5
<1>2. CASE using = <<>>
  <2> DEFINE s == Select(names, required)
  <2>1. s # Error
    BY <1>2 DEF ResolveUsing
  <2>2. PICK name \in STRING, k \in {"dense", "sparse"} :
          /\ s = Ok([name |-> name, kind |-> k])
          /\ name \in (IF k = "dense" THEN names.dense ELSE names.sparse)
    BY <2>1, SelectIs
  <2>3. s[1] = [name |-> name, kind |-> k]
    BY <2>2 DEF Ok
  <2>4. ResolveUsing(using, required, names)
          = IF s[1].name = NoName THEN Ok(<<>>)
            ELSE Ok(<<[name |-> s[1].name, kind |-> s[1].kind, multi |-> s[1].name \in names.multi]>>)
    BY <1>2, <2>1 DEF ResolveUsing
  <2> HIDE DEF s
  <2>5. CASE name = NoName
    <3>1. ResolveUsing(using, required, names) = Ok(<<>>)
      BY <2>3, <2>4, <2>5
    <3>2. NoName \in names.dense
      BY <2>2, <2>5 DEF AreNames
    <3>3. Suits(names, using, <<>>)
      BY <3>2 DEF Suits
    <3> QED
      BY <3>1, <3>3
  <2>6. CASE name # NoName
    <3> DEFINE u == [name |-> name, kind |-> k, multi |-> name \in names.multi]
    <3>1. ResolveUsing(using, required, names) = Ok(<<u>>)
      BY <2>3, <2>4, <2>6
    <3>2. u \in VectorTarget
      BY DEF VectorTarget
    <3>3. KindOf(names, name) = k
      BY <2>2 DEF KindOf, AreNames
    <3>4. u.name = name /\ u.kind = k /\ u.multi = (name \in names.multi) /\ k # "none"
      OBVIOUS
    <3> HIDE DEF u
    <3>5. Suits(names, using, <<u>>)
      BY <3>2, <3>3, <3>4, SingletonSuits
    <3> QED
      BY <3>1, <3>5
  <2> QED
    BY <2>5, <2>6
<1> QED
  BY <1>1, <1>2

\* A list of one.
LEMMA ListOfOne == \A S : \A x \in S : <<x>> \in Seq(S)
OBVIOUS

\* A name of HYBRID that is accepted is one the collection has.
LEMMA RequiredVectorIs ==
  ASSUME NEW name \in Seq(STRING), NEW available \in SUBSET STRING, IsFiniteSet(available),
         RequiredVector(name, available) # Error
  PROVE  \E x : /\ RequiredVector(name, available) = Ok(x) /\ x \in Seq(STRING)
                /\ x # <<>> /\ x[1] \in available
                /\ name # <<>> => x = name
<1>1. CASE name # <<>>
  BY <1>1 DEF RequiredVector
<1>2. CASE name = <<>>
  <2>1. Cardinality(available) = 1 /\ RequiredVector(name, available) = Ok(<<CHOOSE n \in available : TRUE>>)
    BY <1>2 DEF RequiredVector
  <2>2. available # {}
    BY <2>1, FS_EmptySet
  <2>3. PICK n \in available : n = CHOOSE m \in available : TRUE
    BY <2>2
  <2>4. <<n>> # <<>> /\ <<n>>[1] = n
    OBVIOUS
  <2>5. <<n>> \in Seq(STRING)
    BY ListOfOne
  <2> QED
    BY <1>2, <2>1, <2>3, <2>4, <2>5
<1> QED
  BY <1>1, <1>2

-----------------------------------------------------------------------------
(* The configuration of expressions and statements.                        *)

\* A query whose target and names its collection has.
Configured(names, was, e) ==
  /\ e = [was EXCEPT !.using = e.using, !.names = e.names]
  /\ e.using \in Seq(VectorTarget) /\ Len(e.using) <= 1
  /\ e.names \in Seq(Seq(STRING)) /\ Len(e.names) = 2
  /\ was.op \in {"points", "rerank"} => Suits(names, was.using, e.using)
  /\ was.op = "hybrid" => /\ e.names[1] # <<>> /\ e.names[1][1] \in names.dense
                          /\ e.names[2] # <<>> /\ e.names[2][1] \in names.sparse

\* Both names of HYBRID, when they are accepted.
LEMMA NamesAre ==
  ASSUME NEW names, AreNames(names), NEW v \in Seq(Seq(STRING)), Len(v) = 2,
         NEW r, r = AllOk(<<RequiredVector(v[1], names.dense), RequiredVector(v[2], names.sparse)>>),
         r # Error
  PROVE  /\ r = Ok(r[1]) /\ r[1] \in Seq(Seq(STRING)) /\ Len(r[1]) = 2
         /\ r[1][1] # <<>> /\ r[1][1][1] \in names.dense
         /\ r[1][2] # <<>> /\ r[1][2][1] \in names.sparse
         /\ v[1] # <<>> /\ v[2] # <<>> => r[1] = v
<1> DEFINE a == RequiredVector(v[1], names.dense)
           b == RequiredVector(v[2], names.sparse)
<1>1. v[1] \in Seq(STRING) /\ v[2] \in Seq(STRING)
  <2>1. PICK B : B = Seq(STRING)
    OBVIOUS
  <2>2. v \in Seq(B) /\ 1 \in 1..Len(v) /\ 2 \in 1..Len(v)
    BY <2>1
  <2>3. v[1] \in B /\ v[2] \in B
    BY <2>2, ElementOfSeq
  <2> QED
    BY <2>1, <2>3
<1>2. DOMAIN <<a, b>> = 1..2 /\ <<a, b>>[1] = a /\ <<a, b>>[2] = b
  <2> HIDE DEF a, b
  <2> QED
    OBVIOUS
<1>3. /\ \A i \in DOMAIN <<a, b>> : <<a, b>>[i] # Error
      /\ r = Ok([i \in DOMAIN <<a, b>> |-> <<a, b>>[i][1]])
  <2> HIDE DEF a, b
  <2> QED
    BY AllOkIs DEF a, b
<1> HIDE DEF a, b
<1>4. a # Error /\ b # Error
  BY <1>2, <1>3
<1>5. names.dense \in SUBSET STRING /\ names.sparse \in SUBSET STRING
      /\ IsFiniteSet(names.dense) /\ IsFiniteSet(names.sparse)
  BY DEF AreNames
<1>6. PICK x : /\ a = Ok(x) /\ x \in Seq(STRING) /\ x # <<>> /\ x[1] \in names.dense
               /\ v[1] # <<>> => x = v[1]
  BY <1>1, <1>4, <1>5, RequiredVectorIs DEF a
<1>7. PICK y : /\ b = Ok(y) /\ y \in Seq(STRING) /\ y # <<>> /\ y[1] \in names.sparse
               /\ v[2] # <<>> => y = v[2]
  BY <1>1, <1>4, <1>5, RequiredVectorIs DEF b
<1>8. a[1] = x /\ b[1] = y
  BY <1>6, <1>7, ErrorIsNotOk
<1>9. [i \in DOMAIN <<a, b>> |-> <<a, b>>[i][1]] = <<x, y>>
  BY <1>2, <1>8
<1>10. r = Ok(<<x, y>>) /\ r[1] = <<x, y>>
  BY <1>3, <1>9, ErrorIsNotOk
<1>11. <<x, y>> \in Seq(Seq(STRING)) /\ Len(<<x, y>>) = 2 /\ <<x, y>>[1] = x /\ <<x, y>>[2] = y
  <2>1. PICK B : B = Seq(STRING)
    OBVIOUS
  <2>2. x \in B /\ y \in B
    BY <1>6, <1>7, <2>1
  <2>3. <<x, y>> \in Seq(B)
    BY <2>2
  <2> QED
    BY <2>1, <2>3
<1>12. v = <<v[1], v[2]>>
  <2>1. PICK B : B = Seq(STRING)
    OBVIOUS
  <2>2. v \in Seq(B)
    BY <2>1
  <2> QED
    BY <2>2
<1> QED
  BY <1>6, <1>7, <1>10, <1>11, <1>12

\* The walk of topology.rs configures an expression, or refuses it.
LEMMA ConfigureExprIs ==
  ASSUME NEW names, AreNames(names), NEW e, Formed(e), ConfigureExpr(e, names) # Error
  PROVE  /\ ConfigureExpr(e, names) = Ok(ConfigureExpr(e, names)[1])
         /\ Configured(names, e, ConfigureExpr(e, names)[1])
<1> DEFINE required == CASE e.op = "points" -> MergeKinds(e.inputs)
                         [] e.op = "rerank" -> Ok("dense")
                         [] OTHER -> Ok("none")
           using == IF required = Error THEN Error
                    ELSE IF e.op \in {"points", "rerank"}
                         THEN ResolveUsing(e.using, required[1], names)
                         ELSE Ok(e.using)
           vectors == IF e.op = "hybrid"
                      THEN AllOk(<<RequiredVector(e.names[1], names.dense),
                                   RequiredVector(e.names[2], names.sparse)>>)
                      ELSE Ok(e.names)
<1>1. ConfigureExpr(e, names) = IF using = Error \/ vectors = Error THEN Error
                                ELSE Ok([e EXCEPT !.using = using[1], !.names = vectors[1]])
  BY DEF ConfigureExpr
<1>2. e.using \in Seq(VectorTarget) /\ Len(e.using) <= 1 /\ e.names \in Seq(Seq(STRING)) /\ Len(e.names) = 2
  BY DEF Formed, Query
<1>3. using # Error /\ vectors # Error
  <2> HIDE DEF using, vectors
  <2> QED
    BY <1>1
<1>4. /\ using[1] \in Seq(VectorTarget) /\ Len(using[1]) <= 1
      /\ e.op \in {"points", "rerank"} => Suits(names, e.using, using[1])
  <2>1. CASE e.op \in {"points", "rerank"}
    <3>1. using = ResolveUsing(e.using, required[1], names)
      <4> HIDE DEF required
      <4> QED
        BY <1>3, <2>1
    <3> HIDE DEF using, required
    <3>2. PICK u : using = Ok(u) /\ Suits(names, e.using, u)
      BY <1>2, <1>3, <3>1, ResolveUsingSuits
    <3>3. using[1] = u
      BY <3>2, ErrorIsNotOk
    <3> QED
      BY <3>2, <3>3 DEF Suits
  <2>2. CASE e.op \notin {"points", "rerank"}
    <3>1. using = Ok(e.using)
      <4> HIDE DEF required
      <4> QED
        BY <1>3, <2>2
    <3> HIDE DEF using
    <3> QED
      BY <1>2, <2>2, <3>1, ErrorIsNotOk
  <2> QED
    BY <2>1, <2>2
<1>5. /\ vectors[1] \in Seq(Seq(STRING)) /\ Len(vectors[1]) = 2
      /\ e.op = "hybrid" => /\ vectors[1][1] # <<>> /\ vectors[1][1][1] \in names.dense
                            /\ vectors[1][2] # <<>> /\ vectors[1][2][1] \in names.sparse
  <2>1. CASE e.op = "hybrid"
    <3>1. vectors = AllOk(<<RequiredVector(e.names[1], names.dense), RequiredVector(e.names[2], names.sparse)>>)
      BY <2>1
    <3> HIDE DEF vectors
    <3>2. PICK v : v = e.names
      OBVIOUS
    <3> QED
      BY <1>2, <1>3, <3>1, <3>2, NamesAre
  <2>2. CASE e.op # "hybrid"
    <3>1. vectors = Ok(e.names)
      BY <2>2
    <3> HIDE DEF vectors
    <3> QED
      BY <1>2, <2>2, <3>1, ErrorIsNotOk
  <2> QED
    BY <2>1, <2>2
<1> HIDE DEF using, vectors, required
<1>6. ConfigureExpr(e, names) = Ok([e EXCEPT !.using = using[1], !.names = vectors[1]])
  BY <1>1, <1>3
<1>7. Configured(names, e, [e EXCEPT !.using = using[1], !.names = vectors[1]])
  <2>1. PICK u, v : u = using[1] /\ v = vectors[1]
    OBVIOUS
  <2>2. /\ u \in Seq(VectorTarget) /\ Len(u) <= 1 /\ v \in Seq(Seq(STRING)) /\ Len(v) = 2
        /\ e.op \in {"points", "rerank"} => Suits(names, e.using, u)
        /\ e.op = "hybrid" => /\ v[1] # <<>> /\ v[1][1] \in names.dense
                              /\ v[2] # <<>> /\ v[2][1] \in names.sparse
    BY <1>4, <1>5, <2>1
  <2> DEFINE n == [e EXCEPT !.using = u, !.names = v]
  <2>3. n.using = u /\ n.names = v
    BY DEF Formed, Query
  <2>4. n = [e EXCEPT !.using = n.using, !.names = n.names]
    BY <2>3
  <2>5. n = [e EXCEPT !.using = using[1], !.names = vectors[1]]
    BY <2>1
  <2> HIDE DEF n
  <2> QED
    BY <2>2, <2>3, <2>4, <2>5 DEF Configured
<1> QED
  BY <1>6, <1>7, ErrorIsNotOk

\* The target of a query, and the names of HYBRID, are settled.
Settled(e) ==
  /\ e.op \in {"points", "rerank"} => ~TargetNeedsKind(e.using)
  /\ e.op = "hybrid" => e.names[1] # <<>> /\ e.names[2] # <<>>

\* It leaves an expression as it is when its target and names are settled.
LEMMA SettledStays ==
  ASSUME NEW names, AreNames(names), NEW e, Formed(e), Settled(e), ConfigureExpr(e, names) # Error
  PROVE  ConfigureExpr(e, names) = Ok(e)
<1> DEFINE required == CASE e.op = "points" -> MergeKinds(e.inputs)
                         [] e.op = "rerank" -> Ok("dense")
                         [] OTHER -> Ok("none")
           using == IF required = Error THEN Error
                    ELSE IF e.op \in {"points", "rerank"}
                         THEN ResolveUsing(e.using, required[1], names)
                         ELSE Ok(e.using)
           vectors == IF e.op = "hybrid"
                      THEN AllOk(<<RequiredVector(e.names[1], names.dense),
                                   RequiredVector(e.names[2], names.sparse)>>)
                      ELSE Ok(e.names)
<1>1. ConfigureExpr(e, names) = IF using = Error \/ vectors = Error THEN Error
                                ELSE Ok([e EXCEPT !.using = using[1], !.names = vectors[1]])
  BY DEF ConfigureExpr
<1>2. /\ e.using \in Seq(VectorTarget) /\ Len(e.using) <= 1 /\ e.names \in Seq(Seq(STRING)) /\ Len(e.names) = 2
      /\ e \in Query
  BY DEF Formed, Query
<1>3. using # Error /\ vectors # Error
  <2> HIDE DEF using, vectors
  <2> QED
    BY <1>1
<1>4. using = Ok(e.using)
  <2>1. CASE e.op \in {"points", "rerank"}
    <3>1. using = ResolveUsing(e.using, required[1], names)
      <4> HIDE DEF required
      <4> QED
        BY <1>3, <2>1
    <3>2. PICK q : q = required[1]
      OBVIOUS
    <3> HIDE DEF using, required
    <3>3. e.using # <<>> /\ e.using[1].kind # "none" /\ (e.using[1].kind = "dense" => e.using[1].multi)
      BY <2>1 DEF Settled, TargetNeedsKind
    <3>4. 1 \in 1..Len(e.using) /\ e.using = <<e.using[1]>>
      BY <1>2, <3>3
    <3>5. PICK t : t = e.using[1]
      OBVIOUS
    <3>6. t \in VectorTarget
      BY <1>2, <3>4, <3>5, ElementOfSeq
    <3>7. ResolveNamed(t, q, names) # Error /\ using = Ok(ResolveNamed(t, q, names))
      BY <1>3, <3>1, <3>2, <3>3, <3>5 DEF ResolveUsing
    <3>8. ResolveNamed(t, q, names) = Ok(t)
      <4>1. PICK actual, multi :
              actual = KindOf(names, t.name) /\ multi = (t.multi \/ t.name \in names.multi)
        OBVIOUS
      <4>2. t.multi \in BOOLEAN /\ t.kind \in {"dense", "sparse"} /\ actual \in {"none", "dense", "sparse"}
        BY <3>3, <3>5, <3>6, <4>1 DEF VectorTarget, KindOf
      <4>3. CASE actual = "none"
        BY <3>7, <4>1, <4>3 DEF ResolveNamed
      <4>4. CASE actual # "none"
        <5>1. /\ t.kind = actual /\ ~(multi /\ actual # "dense")
              /\ ResolveNamed(t, q, names) = Ok([t EXCEPT !.kind = actual, !.multi = multi])
          BY <3>7, <4>1, <4>2, <4>4 DEF ResolveNamed
        <5>2. multi = t.multi
          BY <3>3, <3>5, <4>1, <4>2, <5>1
        <5>3. [t EXCEPT !.kind = actual, !.multi = multi] = t
          BY <3>6, <5>1, <5>2 DEF VectorTarget
        <5> QED
          BY <5>1, <5>3
      <4> QED
        BY <4>3, <4>4
    <3>9. Ok(t) = e.using
      BY <3>4, <3>5 DEF Ok
    <3> QED
      BY <3>7, <3>8, <3>9
  <2>2. CASE e.op \notin {"points", "rerank"}
    <3> HIDE DEF required
    <3> QED
      BY <1>3, <2>2
  <2> QED
    BY <2>1, <2>2
<1>5. vectors = Ok(e.names)
  <2>1. CASE e.op = "hybrid"
    <3>1. vectors = AllOk(<<RequiredVector(e.names[1], names.dense), RequiredVector(e.names[2], names.sparse)>>)
      BY <2>1
    <3> HIDE DEF vectors
    <3>2. e.names[1] # <<>> /\ e.names[2] # <<>>
      BY <2>1 DEF Settled
    <3> QED
      BY <1>2, <1>3, <3>1, <3>2, NamesAre
  <2>2. CASE e.op # "hybrid"
    BY <2>2
  <2> QED
    BY <2>1, <2>2
<1>6. [e EXCEPT !.using = e.using, !.names = e.names] = e
  BY <1>2 DEF Query
<1> HIDE DEF using, vectors, required
<1> QED
  BY <1>1, <1>3, <1>4, <1>5, <1>6, ErrorIsNotOk

\* Configuration leaves everything but targets and names.
LEMMA ConfiguredKeeps ==
  ASSUME NEW names, NEW was \in Query, NEW e, Configured(names, was, e)
  PROVE  /\ e \in Query /\ e.op = was.op /\ e.inputs = was.inputs /\ e.model = was.model
         /\ e.ctes = was.ctes /\ e.prefetch = was.prefetch
<1>1. e = [was EXCEPT !.using = e.using, !.names = e.names]
  BY DEF Configured
<1>2. PICK u, v : u = e.using /\ v = e.names
  OBVIOUS
<1>3. e = [was EXCEPT !.using = u, !.names = v]
  BY <1>1, <1>2
<1>4. PICK A, B : A = Seq(VectorTarget) /\ B = Seq(Seq(STRING))
  OBVIOUS
<1>5. u \in A /\ v \in B
  BY <1>2, <1>4 DEF Configured
<1>6. PICK C, D, F, G, H :
        C = Seq(Input) /\ D = Seq(Nat) /\ F = Seq(Nat \ {0}) /\ G = {<<>>} /\ H = Ops
  OBVIOUS
<1>7. was \in [op : H, inputs : C, using : A, model : D, names : B, ctes : F, prefetch : D, legs : G]
  BY <1>4, <1>6 DEF Query
<1>8. e \in [op : H, inputs : C, using : A, model : D, names : B, ctes : F, prefetch : D, legs : G]
  BY <1>3, <1>5, <1>7
<1>9. /\ e.op = was.op /\ e.inputs = was.inputs /\ e.model = was.model
      /\ e.ctes = was.ctes /\ e.prefetch = was.prefetch
  BY <1>3, <1>7
<1>10. e \in Query
  BY <1>4, <1>6, <1>8 DEF Query
<1> QED
  BY <1>9, <1>10

\* The walk of topology.rs configures every query of a statement, or refuses it.
LEMMA ConfigureIs ==
  ASSUME NEW t, IsStatement(t), NEW names, AreNames(names), Configure(t, names) # Error
  PROVE  LET u == Configure(t, names)[1]
         IN  /\ Configure(t, names) = Ok(u) /\ DOMAIN u = DOMAIN t /\ u = [i \in DOMAIN t |-> u[i]]
             /\ \A i \in DOMAIN t : /\ ConfigureExpr(t[i], names) = Ok(u[i])
                                    /\ Configured(names, t[i], u[i])
<1> DEFINE results == [i \in DOMAIN t |-> ConfigureExpr(t[i], names)]
           u == Configure(t, names)[1]
<1>1. AllOk(results) # Error /\ Configure(t, names) = AllOk(results)
  BY DEF Configure
<1>2. /\ \A i \in DOMAIN results : results[i] # Error
      /\ AllOk(results) = Ok([i \in DOMAIN results |-> results[i][1]])
  <2> HIDE DEF results
  <2> QED
    BY <1>1, AllOkIs
<1>3. DOMAIN results = DOMAIN t /\ \A i \in DOMAIN t : results[i] = ConfigureExpr(t[i], names)
  OBVIOUS
<1> HIDE DEF results
<1>4. u = [i \in DOMAIN t |-> results[i][1]]
  BY <1>1, <1>2, <1>3, ErrorIsNotOk
<1>5. Configure(t, names) = Ok(u)
  BY <1>1, <1>2, <1>3, <1>4
<1> HIDE DEF u
<1>6. \A i \in DOMAIN t : Formed(t[i])
  <2>1. DOMAIN t = 1..Len(t)
    BY StatementShape
  <2> QED
    BY <2>1, StatementFormed
<1>7. ASSUME NEW i \in DOMAIN t
      PROVE  ConfigureExpr(t[i], names) = Ok(u[i]) /\ Configured(names, t[i], u[i])
  <2>1. PICK e : e = t[i]
    OBVIOUS
  <2>2. Formed(e) /\ ConfigureExpr(e, names) # Error
    BY <1>2, <1>3, <1>6, <2>1
  <2>3. /\ ConfigureExpr(e, names) = Ok(ConfigureExpr(e, names)[1])
        /\ Configured(names, e, ConfigureExpr(e, names)[1])
    BY <2>2, ConfigureExprIs
  <2>4. u[i] = ConfigureExpr(e, names)[1]
    BY <1>3, <1>4, <2>1
  <2> QED
    BY <2>1, <2>3, <2>4
<1>8. DOMAIN u = DOMAIN t /\ u = [i \in DOMAIN t |-> u[i]]
  BY <1>4
<1> QED
  BY <1>5, <1>7, <1>8 DEF u

\* What configuration makes of a statement is one.
LEMMA ConfiguredStatement ==
  ASSUME NEW t, IsStatement(t), NEW names, NEW u, DOMAIN u = DOMAIN t, u = [i \in DOMAIN t |-> u[i]],
         \A i \in DOMAIN t : Configured(names, t[i], u[i])
  PROVE  IsStatement(u)
<1>1. t \in Seq(Query) /\ DOMAIN t = 1..Len(t) /\ Len(t) \in Nat \ {0} /\ \A i \in DOMAIN t : t[i] \in Query
  <2>1. t \in Seq(Query) /\ t # <<>>
    BY DEF IsStatement
  <2> QED
    BY <2>1, StatementShape, ElementOfSeq
<1>2. \A i \in DOMAIN t : /\ u[i] \in Query /\ u[i].op = t[i].op /\ u[i].inputs = t[i].inputs
                          /\ u[i].model = t[i].model /\ u[i].ctes = t[i].ctes
                          /\ u[i].prefetch = t[i].prefetch
  BY <1>1, ConfiguredKeeps
<1>3. u \in Seq(Query) /\ Len(u) = Len(t) /\ u # <<>>
  <2>1. PICK n, S : n = Len(t) /\ S = Query
    OBVIOUS
  <2>2. n \in Nat \ {0} /\ u = [i \in 1..n |-> u[i]] /\ \A i \in 1..n : u[i] \in S
    BY <1>1, <1>2, <2>1
  <2>3. u \in Seq(S) /\ Len(u) = n
    BY <2>2, IsASeq
  <2> QED
    BY <2>1, <2>2, <2>3
<1>4. \A i \in DOMAIN t : Below(u[i]) = Below(t[i])
  BY <1>2 DEF Below
<1>5. \A i \in DOMAIN u :
        /\ Len(u[i].using) <= 1 /\ Len(u[i].names) = 2
        /\ u[i].op = "hybrid" => Len(u[i].inputs) = 1 /\ u[i].inputs[1].type = "text"
        /\ u[i].op = "rerank" => Len(u[i].inputs) = 1 /\ Len(u[i].model) = 1
        /\ u[i].op \in {"hybrid", "scroll"} => u[i].prefetch = <<>>
        /\ \A k \in DOMAIN Below(u[i]) : Below(u[i])[k] \in {0} \union (i + 1)..Len(u)
  <2> SUFFICES ASSUME NEW i \in DOMAIN t
               PROVE  /\ Len(u[i].using) <= 1 /\ Len(u[i].names) = 2
                      /\ u[i].op = "hybrid" => Len(u[i].inputs) = 1 /\ u[i].inputs[1].type = "text"
                      /\ u[i].op = "rerank" => Len(u[i].inputs) = 1 /\ Len(u[i].model) = 1
                      /\ u[i].op \in {"hybrid", "scroll"} => u[i].prefetch = <<>>
                      /\ \A k \in DOMAIN Below(u[i]) : Below(u[i])[k] \in {0} \union (i + 1)..Len(u)
    OBVIOUS
  <2>1. /\ t[i].op = "hybrid" => Len(t[i].inputs) = 1 /\ t[i].inputs[1].type = "text"
        /\ t[i].op = "rerank" => Len(t[i].inputs) = 1 /\ Len(t[i].model) = 1
        /\ t[i].op \in {"hybrid", "scroll"} => t[i].prefetch = <<>>
        /\ \A k \in DOMAIN Below(t[i]) : Below(t[i])[k] \in {0} \union (i + 1)..Len(t)
    BY Zenon DEF IsStatement
  <2>2. Len(u[i].using) <= 1 /\ Len(u[i].names) = 2
    BY Zenon DEF Configured
  <2>3. /\ u[i].op = t[i].op /\ u[i].inputs = t[i].inputs /\ u[i].model = t[i].model
        /\ u[i].prefetch = t[i].prefetch /\ Below(u[i]) = Below(t[i]) /\ Len(u) = Len(t)
    BY <1>2, <1>3, <1>4
  <2> QED
    BY <2>1, <2>2, <2>3, Zenon
<1>6. \A j \in 2..Len(u) : \E i \in DOMAIN u : \E k \in DOMAIN Below(u[i]) : Below(u[i])[k] = j
  <2>1. \A j \in 2..Len(t) : \E i \in DOMAIN t : \E k \in DOMAIN Below(t[i]) : Below(t[i])[k] = j
    BY Zenon DEF IsStatement
  <2>2. ASSUME NEW j \in 2..Len(t) PROVE \E i \in DOMAIN u : \E k \in DOMAIN Below(u[i]) : Below(u[i])[k] = j
    <3>1. PICK i \in DOMAIN t : \E k \in DOMAIN Below(t[i]) : Below(t[i])[k] = j
      BY <2>1
    <3>2. Below(u[i]) = Below(t[i]) /\ i \in DOMAIN u
      BY <1>4
    <3> QED
      BY <3>1, <3>2
  <2> QED
    BY <1>3, <2>2
<1>7. \A h, i \in DOMAIN u : \A k \in DOMAIN Below(u[h]), l \in DOMAIN Below(u[i]) :
        Below(u[h])[k] = Below(u[i])[l] /\ Below(u[h])[k] # 0 => h = i /\ k = l
  <2>1. \A h, i \in DOMAIN t : \A k \in DOMAIN Below(t[h]), l \in DOMAIN Below(t[i]) :
          Below(t[h])[k] = Below(t[i])[l] /\ Below(t[h])[k] # 0 => h = i /\ k = l
    BY Zenon DEF IsStatement
  <2> SUFFICES ASSUME NEW h \in DOMAIN t, NEW i \in DOMAIN t,
                      NEW k \in DOMAIN Below(u[h]), NEW l \in DOMAIN Below(u[i]),
                      Below(u[h])[k] = Below(u[i])[l], Below(u[h])[k] # 0
               PROVE  h = i /\ k = l
    OBVIOUS
  <2>2. PICK b, c : b = Below(t[h]) /\ c = Below(t[i])
    OBVIOUS
  <2>3. Below(u[h]) = b /\ Below(u[i]) = c
    BY <1>4, <2>2
  <2>4. \A m \in DOMAIN b, n \in DOMAIN c : b[m] = c[n] /\ b[m] # 0 => h = i /\ m = n
    BY <2>1, <2>2
  <2> QED
    BY <2>3, <2>4
<1> QED
  BY <1>3, <1>5, <1>6, <1>7, Zenon DEF IsStatement

\* A statement query_needs_kind_resolution finds nothing open in (NeedsKind) is left
\* as it is by configure_query, or refused, for every tree of queries and all names.
THEOREM NothingToFill ==
  ASSUME NEW t, IsStatement(t), NEW names, AreNames(names), ~NeedsKind(t)
  PROVE  Configure(t, names) \in {Error, Ok(t)}
<1> SUFFICES ASSUME Configure(t, names) # Error PROVE Configure(t, names) = Ok(t)
  OBVIOUS
<1>1. PICK u : u = Configure(t, names)[1]
  OBVIOUS
<1>2. /\ Configure(t, names) = Ok(u) /\ u = [i \in DOMAIN t |-> u[i]]
      /\ \A i \in DOMAIN t : ConfigureExpr(t[i], names) = Ok(u[i])
  BY <1>1, ConfigureIs
<1>3. \A i \in DOMAIN t : Formed(t[i])
  <2>1. DOMAIN t = 1..Len(t)
    BY StatementShape
  <2> QED
    BY <2>1, StatementFormed
<1>4. ASSUME NEW i \in DOMAIN t PROVE u[i] = t[i]
  <2>1. PICK e : e = t[i]
    OBVIOUS
  <2>2. Settled(e)
    BY <2>1 DEF NeedsKind, Settled
  <2>3. Formed(e) /\ ConfigureExpr(e, names) # Error /\ ConfigureExpr(e, names) = Ok(u[i])
    BY <1>2, <1>3, <2>1, ErrorIsNotOk
  <2>4. ConfigureExpr(e, names) = Ok(e)
    BY <2>2, <2>3, SettledStays
  <2>5. Ok(u[i]) = Ok(e)
    BY <2>3, <2>4
  <2> QED
    BY <2>1, <2>5, ErrorIsNotOk
<1>5. t = [i \in DOMAIN t |-> t[i]]
  <2>1. PICK S : S = Query
    OBVIOUS
  <2>2. t \in Seq(S)
    BY <2>1, Zenon DEF IsStatement
  <2> QED
    BY <2>2
<1>6. u = t
  BY <1>2, <1>4, <1>5
<1> QED
  BY <1>2, <1>6

-----------------------------------------------------------------------------
(* The types of an upsert.                                                 *)

\* Schemas, those auto-creation makes included.
SchemaType == [dense : SUBSET VectorNames, sparse : SUBSET VectorNames, multi : SUBSET VectorNames]

\* A schema, or none.
OptSchema(x) == x = <<>> \/ (x = <<x[1]>> /\ x[1] \in SchemaType)

\* The legs name vectors there can be,
LegNames(legs) ==
  \A k \in DOMAIN legs : /\ legs[k].kind \in Kinds
                         /\ legs[k].vec # <<>> => legs[k].vec[1] \in VectorNames

\* and so do the points.
PointNames(points) == \A i \in DOMAIN points : DOMAIN points[i].vecs \subseteq VectorNames

\* The types of an upsert on its way.
Typed ==
  /\ pc \in {"configure", "embed", "create", "send", "done", "refused", "error"}
  /\ at \in 1..(Len(up.legs) + 1)
  /\ LegNames(up.legs) /\ PointNames(up.points)
  /\ OptSchema(srv) /\ OptSchema(seen) /\ OptSchema(made)

\* The unnamed vector has the same name in both models.
LEMMA NoNames == Unnamed = NoName /\ Unnamed \in VectorNames
<1>1. Unnamed = NoName
  BY Zenon DEF Unnamed, NoName
<1> QED
  BY <1>1, QueryAssumption

\* The default names are names there can be.
LEMMA DefaultNames == \A kind \in Kinds : DefaultName[kind] \in VectorNames
<1>1. {"dense", "sparse", "colbert", "image"} \subseteq VectorNames
  <2>1. {NoName, "dense", "sparse", "colbert", "image"} \subseteq VectorNames
    BY QueryAssumption
  <2> QED
    BY <2>1
<1> QED
  BY <1>1 DEF Kinds, DefaultName

\* Schemas are such.
LEMMA OneOfSchemas ==
  ASSUME NEW x, x \in Optional(Schemas)
  PROVE  OptSchema(x)
<1>1. CASE x = <<>>
  BY <1>1 DEF OptSchema
<1>2. CASE x # <<>>
  <2>1. PICK s \in Schemas : x = <<s>>
    BY <1>2 DEF Optional
  <2>2. s \in SchemaType
    BY UpsertAssumption DEF SchemaType
  <2> QED
    BY <2>1, <2>2 DEF OptSchema
<1> QED
  BY <1>1, <1>2

\* A statement names vectors there can be.
LEMMA StatementNames ==
  ASSUME NEW u \in Upserts
  PROVE  LegNames(u.legs) /\ PointNames(u.points) /\ Len(u.legs) \in Nat
<1>1. u.points \in Seq(Point) /\ u.legs \in Seq(Clause)
  BY Statement
<1>2. \A k \in DOMAIN u.legs : u.legs[k] \in Clause
  BY <1>1, ElementOfSeq, LenProperties
<1>3. ASSUME NEW c \in Clause PROVE c.kind \in Kinds /\ (c.vec # <<>> => c.vec[1] \in VectorNames)
  <2>1. c.kind \in Kinds /\ c.vec \in Optional(VectorNames)
    BY DEF Clause
  <2> QED
    BY <2>1 DEF Optional
<1>4. LegNames(u.legs)
  BY <1>2, <1>3 DEF LegNames
<1>5. \A i \in DOMAIN u.points : u.points[i] \in Point
  BY <1>1, ElementOfSeq, LenProperties
<1>6. ASSUME NEW p \in Point PROVE DOMAIN p.vecs \subseteq VectorNames
  <2>1. p.vecs \in UNION {[N -> {<<"user">>}] : N \in SUBSET VectorNames}
    BY DEF Point
  <2>2. PICK N \in SUBSET VectorNames : p.vecs \in [N -> {<<"user">>}]
    BY <2>1
  <2> QED
    BY <2>2
<1>7. PointNames(u.points)
  BY <1>5, <1>6 DEF PointNames
<1> QED
  BY <1>1, <1>4, <1>7, LenProperties

\* So do its points when an unnamed vector gets a name,
LEMMA MappedNames ==
  ASSUME NEW u \in Upserts, NEW s \in Schemas
  PROVE  PointNames(MapUnnamed(u.points, SchemaTargets(s)))
<1> DEFINE names == SchemaTargets(s)
           points == MapUnnamed(u.points, names)
<1>1. PointNames(u.points) /\ DOMAIN u.points = 1..Len(u.points)
  BY StatementNames, Statement
<1>2. names.dense \subseteq VectorNames
  <2>1. s \in SchemaType
    BY UpsertAssumption DEF SchemaType
  <2> QED
    BY <2>1, NoNames DEF SchemaTargets, SchemaType
<1> HIDE DEF names
<1>3. CASE Cardinality(names.dense) # 1 \/ Unnamed \in names.dense
  <2>1. points = u.points
    BY <1>3 DEF MapUnnamed
  <2> QED
    BY <1>1, <2>1 DEF names
<1>4. CASE ~(Cardinality(names.dense) # 1 \/ Unnamed \in names.dense)
  <2>1. DOMAIN points = DOMAIN u.points
        /\ \A i \in DOMAIN u.points :
             points[i] = IF u.points[i].unnamed
                         THEN [u.points[i] EXCEPT !.unnamed = FALSE, !.vecs = [n \in names.dense |-> <<"user">>]]
                         ELSE u.points[i]
    BY <1>4 DEF MapUnnamed
  <2>2. ASSUME NEW i \in DOMAIN u.points PROVE DOMAIN points[i].vecs \subseteq VectorNames
    <3> HIDE DEF points
    <3>1. CASE u.points[i].unnamed
      <4> DEFINE v == [n \in names.dense |-> <<"user">>]
      <4>1. u.points[i] = [fields |-> u.points[i].fields, vecs |-> u.points[i].vecs,
                           unnamed |-> u.points[i].unnamed]
        <5>1. IsPoint(u.points[i])
          BY <1>1, Statement
        <5> QED
          BY <5>1 DEF IsPoint
      <4>2. points[i] = [u.points[i] EXCEPT !.unnamed = FALSE, !.vecs = v]
        BY <2>1, <3>1
      <4>3. DOMAIN v = names.dense
        OBVIOUS
      <4> HIDE DEF v
      <4>4. points[i].vecs = v
        BY <4>1, <4>2
      <4> QED
        BY <1>2, <4>3, <4>4
    <3>2. CASE ~u.points[i].unnamed
      <4>1. points[i] = u.points[i]
        BY <2>1, <3>2
      <4> QED
        BY <1>1, <4>1 DEF PointNames
    <3> QED
      BY <3>1, <3>2
  <2> HIDE DEF points
  <2> QED
    BY <2>1, <2>2 DEF PointNames, points, names
<1> QED
  BY <1>3, <1>4

\* and its legs when they are resolved from a schema.
LEMMA KnownNames ==
  ASSUME NEW u \in Upserts, NEW s \in Schemas, NEW legs,
         legs = IF u.legs # <<>> THEN u.legs ELSE InferLegs(SchemaTargets(s)),
         Resolvable(legs, SchemaTargets(s))
  PROVE  LegNames(ResolveLegs(legs, SchemaTargets(s))) /\ Len(ResolveLegs(legs, SchemaTargets(s))) \in Nat
<1> DEFINE names == SchemaTargets(s)
           resolved == ResolveLegs(legs, names)
<1>1. legs \in Seq(Clause) \/ legs \in Seq(AnyLeg)
  BY LegsOf
<1>2. Len(legs) \in Nat /\ DOMAIN legs = 1..Len(legs) /\ \A k \in DOMAIN legs : legs[k] \in Clause \/ legs[k] \in AnyLeg
  BY <1>1, ElementOfSeq, LenProperties
<1>3. \A kind : Available(names, kind) \subseteq VectorNames
  <2>1. s \in SchemaType
    BY UpsertAssumption DEF SchemaType
  <2>2. names.dense \subseteq VectorNames /\ names.sparse \subseteq VectorNames /\ names.multi \subseteq VectorNames
    BY <2>1, NoNames DEF SchemaTargets, SchemaType
  <2> HIDE DEF names
  <2> QED
    BY <2>2 DEF Available
<1>4. DOMAIN resolved = 1..Len(legs)
  BY <1>2 DEF ResolveLegs
<1>5. ASSUME NEW k \in DOMAIN legs
      PROVE  resolved[k].kind \in Kinds /\ resolved[k].vec[1] \in VectorNames
  <2>1. resolved[k].vec[1] \in Available(names, resolved[k].kind)
    BY <1>2, ResolvedTargets
  <2>2. resolved[k].kind = legs[k].kind
    <3>1. resolved[k] = IF legs[k].vec # <<>> THEN legs[k]
                        ELSE [legs[k] EXCEPT !.vec = <<CHOOSE n \in Available(names, legs[k].kind) : TRUE>>]
      BY DEF ResolveLegs
    <3>2. \A v : [legs[k] EXCEPT !.vec = v].kind = legs[k].kind
      BY <1>2 DEF Clause, AnyLeg
    <3> HIDE DEF resolved
    <3> QED
      BY <3>1, <3>2
  <2>3. legs[k].kind \in Kinds
    BY <1>2 DEF Clause, AnyLeg
  <2> HIDE DEF resolved, names
  <2> QED
    BY <1>3, <2>1, <2>2, <2>3
<1>6. Len(resolved) = Len(legs)
  <2> HIDE DEF resolved
  <2>1. \E m \in Nat : DOMAIN resolved = 1..m
    BY <1>2, <1>4
  <2> QED
    BY <1>2, <1>4, <2>1
<1> HIDE DEF resolved
<1> QED
  BY <1>2, <1>4, <1>5, <1>6 DEF LegNames, resolved

\* An upsert starts so.
LEMMA TypedInit == UpsertInit => Typed
<1> SUFFICES ASSUME UpsertInit PROVE Typed
  OBVIOUS
<1>1. stmt \in Upserts /\ up = stmt /\ at = 1 /\ pc = "configure" /\ seen = <<>> /\ made = <<>>
      /\ srv \in Optional(Schemas)
  BY DEF UpsertInit, Optional
<1>2. LegNames(up.legs) /\ PointNames(up.points) /\ Len(up.legs) \in Nat
  BY <1>1, StatementNames
<1>3. OptSchema(srv)
  BY <1>1, OneOfSchemas
<1>4. OptSchema(<<>>)
  BY DEF OptSchema
<1> QED
  BY <1>1, <1>2, <1>3, <1>4 DEF Typed

\* A step that moves the program counter, or changes the collection.
LEMMA SameTyped ==
  ASSUME Typed, UNCHANGED <<up, at, seen, made>>, OptSchema(srv'),
         pc' \in {"configure", "embed", "create", "send", "done", "refused", "error"}
  PROVE  Typed'
<1>1. Typed => /\ at \in 1..(Len(up.legs) + 1)
               /\ LegNames(up.legs) /\ PointNames(up.points)
               /\ OptSchema(seen) /\ OptSchema(made)
  BY DEF Typed
<1>2. at' \in 1..(Len(up'.legs) + 1)
  BY <1>1
<1>3. LegNames(up.legs)' /\ PointNames(up.points)'
  BY <1>1 DEF LegNames, PointNames
<1>4. OptSchema(srv)' /\ OptSchema(seen)' /\ OptSchema(made)'
  BY <1>1 DEF OptSchema, SchemaType
<1> QED
  BY <1>2, <1>3, <1>4 DEF Typed

\* What a configuration leaves behind.
LEMMA ConfiguredTyped ==
  ASSUME Typed, NEW points, NEW legs, up' = [points |-> points, legs |-> legs],
         PointNames(points), LegNames(legs), Len(legs) \in Nat,
         at' = 1, pc' = "embed", UNCHANGED <<srv, made>>, OptSchema(seen')
  PROVE  Typed'
<1>1. up'.points = points /\ up'.legs = legs
  OBVIOUS
<1>2. LegNames(up.legs)' /\ PointNames(up.points)'
  BY <1>1 DEF LegNames, PointNames
<1>3. at' \in 1..(Len(up'.legs) + 1)
  BY <1>1
<1>4. OptSchema(srv)' /\ OptSchema(seen)' /\ OptSchema(made)'
  BY DEF Typed, OptSchema, SchemaType
<1> QED
  BY <1>2, <1>3, <1>4 DEF Typed

\* The default legs name vectors there can be.
LEMMA DefaultLegs ==
  /\ LegNames(<<BareLeg>>) /\ Len(<<BareLeg>>) \in Nat
  /\ LET legs == <<UsingLeg("dense", "dense"), [UsingLeg("sparse", "sparse") EXCEPT !.sizes = FALSE]>>
     IN  LegNames(legs) /\ Len(legs) \in Nat
<1>1. "dense" \in VectorNames /\ "sparse" \in VectorNames
  <2>1. {NoName, "dense", "sparse", "colbert", "image"} \subseteq VectorNames
    BY QueryAssumption
  <2> QED
    BY <2>1
<1>2. BareLeg.kind = "dense" /\ BareLeg.vec = <<"dense">>
  BY DEF BareLeg, UsingLeg
<1> DEFINE d == UsingLeg("dense", "dense")
           s == [UsingLeg("sparse", "sparse") EXCEPT !.sizes = FALSE]
<1>3. d.kind = "dense" /\ d.vec = <<"dense">> /\ s.kind = "sparse" /\ s.vec = <<"sparse">>
  BY DEF UsingLeg
<1>4. \A b : b.kind = "dense" /\ b.vec = <<"dense">> => LegNames(<<b>>)
  BY <1>1 DEF LegNames, Kinds
<1>5. \A b, c : b.kind = "dense" /\ b.vec = <<"dense">> /\ c.kind = "sparse" /\ c.vec = <<"sparse">>
                => LegNames(<<b, c>>)
  BY <1>1 DEF LegNames, Kinds
<1> HIDE DEF d, s
<1> QED
  BY <1>2, <1>3, <1>4, <1>5 DEF d, s

\* The configuration leaves the types,
LEMMA ConfigureTyped ==
  ASSUME IInv, Typed, ConfigureBare \/ ConfigureMissing \/ ConfigureKnown, ~Fails
  PROVE  Typed'
<1>1. stmt \in Upserts /\ pc = "configure" /\ up = stmt /\ at = 1 /\ srv \in Optional(Schemas)
  BY DEF IInv, Kept, Configuring, ConfigureBare, ConfigureMissing, ConfigureKnown
<1>2. /\ LegNames(stmt.legs) /\ PointNames(stmt.points) /\ Len(stmt.legs) \in Nat
      /\ stmt = [points |-> stmt.points, legs |-> stmt.legs]
      /\ \A legs : [stmt EXCEPT !.legs = legs] = [points |-> stmt.points, legs |-> legs]
  BY <1>1, StatementNames, Statement
<1>3. OptSchema(srv) /\ OptSchema(seen)
  BY DEF Typed
<1>4. at' = 1 /\ pc' = "embed" /\ UNCHANGED <<srv, made>>
  BY <1>1 DEF ConfigureBare, ConfigureMissing, ConfigureKnown
<1>5. (seen' = seen \/ seen' = srv) => OptSchema(seen')
  BY <1>3
<1>6. CASE ConfigureBare
  <2>1. \/ /\ srv # <<>>
           /\ up' = [points |-> MapUnnamed(stmt.points, SchemaTargets(srv[1])), legs |-> <<BareLeg>>]
           /\ seen' = srv
        \/ /\ up' = [stmt EXCEPT !.legs = <<BareLeg>>]
           /\ seen' = seen
    BY <1>6 DEF ConfigureBare
  <2>2. CASE /\ srv # <<>>
             /\ up' = [points |-> MapUnnamed(stmt.points, SchemaTargets(srv[1])), legs |-> <<BareLeg>>]
             /\ seen' = srv
    <3>1. srv[1] \in Schemas
      BY <1>1, <2>2 DEF Optional
    <3>2. PointNames(MapUnnamed(stmt.points, SchemaTargets(srv[1])))
      BY <1>1, <3>1, MappedNames
    <3> QED
      BY <1>4, <1>5, <2>2, <3>2, DefaultLegs, ConfiguredTyped
  <2>3. CASE up' = [stmt EXCEPT !.legs = <<BareLeg>>] /\ seen' = seen
    <3>1. up' = [points |-> stmt.points, legs |-> <<BareLeg>>]
      BY <1>2, <2>3
    <3> QED
      BY <1>2, <1>4, <1>5, <2>3, <3>1, DefaultLegs, ConfiguredTyped
  <2> QED
    BY <2>1, <2>2, <2>3
<1>7. CASE ConfigureMissing
  <2> DEFINE both == <<UsingLeg("dense", "dense"), [UsingLeg("sparse", "sparse") EXCEPT !.sizes = FALSE]>>
  <2>1. LegNames(both) /\ Len(both) \in Nat
    BY DefaultLegs
  <2>2. seen' = seen /\ up' = IF stmt.legs # <<>> THEN stmt ELSE [stmt EXCEPT !.legs = both]
    BY <1>7 DEF ConfigureMissing
  <2> HIDE DEF both
  <2>3. CASE stmt.legs # <<>>
    <3>1. up' = [points |-> stmt.points, legs |-> stmt.legs]
      BY <1>2, <2>2, <2>3
    <3> QED
      BY <1>2, <1>4, <1>5, <2>2, <3>1, ConfiguredTyped
  <2>4. CASE stmt.legs = <<>>
    <3>1. up' = [points |-> stmt.points, legs |-> both]
      BY <1>2, <2>2, <2>4
    <3> QED
      BY <1>2, <1>4, <1>5, <2>1, <2>2, <3>1, ConfiguredTyped
  <2> QED
    BY <2>3, <2>4
<1>8. CASE ConfigureKnown
  <2> DEFINE names == SchemaTargets(srv[1])
             legs  == IF stmt.legs # <<>> THEN stmt.legs ELSE InferLegs(names)
             resolved == ResolveLegs(legs, names)
  <2>1. /\ srv # <<>> /\ Resolvable(legs, names)
        /\ up' = [stmt EXCEPT !.legs = resolved] /\ seen' = srv
    BY <1>8 DEF ConfigureKnown
  <2>2. srv[1] \in Schemas
    BY <1>1, <2>1 DEF Optional
  <2>3. LegNames(resolved) /\ Len(resolved) \in Nat
    BY <1>1, <2>1, <2>2, KnownNames
  <2> HIDE DEF resolved
  <2>4. up' = [points |-> stmt.points, legs |-> resolved]
    BY <1>2, <2>1
  <2> QED
    BY <1>2, <1>4, <1>5, <2>1, <2>3, <2>4, ConfiguredTyped
<1> QED
  BY <1>6, <1>7, <1>8

\* an embedded leg does,
LEMMA EmbedLegTyped ==
  ASSUME IInv, Typed, EmbedLeg, ~Fails
  PROVE  Typed'
<1>1. /\ pc = "embed" /\ at \in DOMAIN up.legs /\ at \in Nat \ {0}
      /\ up'.legs = up.legs /\ at' = at + 1
      /\ UNCHANGED <<pc, stmt, srv, seen, made>>
      /\ up'.points = [i \in 1..Len(stmt.points) |-> up'.points[i]]
      /\ \A i \in 1..Len(stmt.points) :
           up'.points[i] = IF Reads(i) THEN Written(i) ELSE up.points[i]
  BY EmbedLegWrites
<1>2. /\ LegNames(up.legs) /\ PointNames(up.points) /\ OptSchema(srv) /\ OptSchema(seen) /\ OptSchema(made)
      /\ at \in 1..(Len(up.legs) + 1)
  BY DEF Typed
<1>3. /\ DOMAIN up.points = 1..Len(stmt.points) /\ \A i \in 1..Len(stmt.points) : IsPoint(up.points[i])
  BY DEF IInv, Kept
<1>4. TargetName(Current) \in VectorNames
  <2>1. Current.kind \in Kinds /\ (Current.vec # <<>> => Current.vec[1] \in VectorNames)
    BY <1>1, <1>2 DEF LegNames, Current
  <2> QED
    BY <2>1, DefaultNames DEF TargetName
<1>5. ASSUME NEW i \in 1..Len(stmt.points) PROVE DOMAIN up'.points[i].vecs \subseteq VectorNames
  <2>1. DOMAIN up.points[i].vecs \subseteq VectorNames
    BY <1>2, <1>3 DEF PointNames
  <2>2. CASE Reads(i)
    <3>1. DOMAIN Written(i).vecs = DOMAIN up.points[i].vecs \union {TargetName(Current)}
      BY <1>3, PutOnly DEF Written
    <3>2. up'.points[i] = Written(i)
      BY <1>1, <2>2
    <3> QED
      BY <1>4, <2>1, <3>1, <3>2
  <2>3. CASE ~Reads(i)
    BY <1>1, <2>1, <2>3
  <2> QED
    BY <2>2, <2>3
<1>6. PointNames(up'.points)
  <2>1. DOMAIN up'.points = 1..Len(stmt.points)
    BY <1>1
  <2> QED
    BY <1>5, <2>1 DEF PointNames
<1>7. LegNames(up'.legs)
  BY <1>1, <1>2
<1>8. at' \in 1..(Len(up'.legs) + 1)
  <2>1. PICK m \in Nat : DOMAIN up.legs = 1..m
    BY DEF IInv, Kept
  <2>2. Len(up.legs) = m
    BY <2>1
  <2> QED
    BY <1>1, <2>1, <2>2
<1>9. LegNames(up.legs)' /\ PointNames(up.points)'
  BY <1>6, <1>7 DEF LegNames, PointNames
<1>10. OptSchema(srv)' /\ OptSchema(seen)' /\ OptSchema(made)'
  BY <1>1, <1>2 DEF OptSchema, SchemaType
<1>11. pc' = "embed"
  BY <1>1
<1> QED
  BY <1>8, <1>9, <1>10, <1>11 DEF Typed

\* and the creation of a collection.
LEMMA CreateTyped ==
  ASSUME IInv, Typed, Create, ~Fails
  PROVE  Typed'
<1> DEFINE One(kind) == IF Counting(kind) = {} THEN {} ELSE {NameOr(kind)}
           new == [dense |-> One("dense"), sparse |-> One("sparse"), multi |-> {}]
<1>1. srv' = <<new>> /\ made' = <<new>> /\ pc' = "send" /\ UNCHANGED <<up, at, seen>>
  BY DEF Create
<1>2. /\ LegNames(up.legs) /\ PointNames(up.points) /\ OptSchema(seen)
      /\ at \in 1..(Len(up.legs) + 1)
  BY DEF Typed
<1>3. ASSUME NEW kind \in Kinds PROVE One(kind) \subseteq VectorNames
  <2>1. Named(kind) \subseteq VectorNames
    BY <1>2 DEF LegNames, Named, Counting
  <2>2. NameOr(kind) \in VectorNames
    <3> DEFINE N == Named(kind)
    <3>1. NameOr(kind) = IF N = {} THEN DefaultName[kind] ELSE CHOOSE n \in N : TRUE
      BY DEF NameOr
    <3> HIDE DEF N
    <3>2. N # {} => (CHOOSE n \in N : TRUE) \in N
      OBVIOUS
    <3>3. N \subseteq VectorNames
      BY <2>1 DEF N
    <3> QED
      BY <3>1, <3>2, <3>3, DefaultNames
  <2> QED
    BY <2>2
<1>4. new \in SchemaType
  <2>1. One("dense") \subseteq VectorNames /\ One("sparse") \subseteq VectorNames
    <3>1. "dense" \in Kinds /\ "sparse" \in Kinds
      BY DEF Kinds
    <3> HIDE DEF One
    <3> QED
      BY <1>3, <3>1
  <2> HIDE DEF One
  <2> QED
    BY <2>1 DEF SchemaType
<1> HIDE DEF new
<1>5. OptSchema(<<new>>)
  BY <1>4 DEF OptSchema
<1>6. OptSchema(srv)' /\ OptSchema(seen)' /\ OptSchema(made)'
  BY <1>1, <1>2, <1>5 DEF OptSchema, SchemaType
<1>7. LegNames(up.legs)' /\ PointNames(up.points)' /\ at' \in 1..(Len(up'.legs) + 1)
  BY <1>1, <1>2 DEF LegNames, PointNames
<1> QED
  BY <1>1, <1>6, <1>7 DEF Typed

\* Every step of an upsert leaves the types.
LEMMA StepTyped == IInv /\ Typed /\ [UpsertStep]_vars => Typed'
<1> SUFFICES ASSUME IInv, Typed, [UpsertStep]_vars PROVE Typed'
  OBVIOUS
<1>1. OptSchema(srv)
  BY DEF Typed
<1>2. srv' = srv => OptSchema(srv')
  BY <1>1
<1>3. CASE Fails
  BY <1>2, <1>3, SameTyped DEF Fails
<1>4. CASE (ConfigureBare \/ ConfigureMissing \/ ConfigureKnown) /\ ~Fails
  BY <1>4, ConfigureTyped
<1>5. CASE EmbedLeg /\ ~Fails
  BY <1>5, EmbedLegTyped
<1>6. CASE Ensure
  <2>1. pc' \in {"send", "error", "create"} /\ UNCHANGED <<up, at, srv, seen, made>>
    BY <1>6 DEF Ensure
  <2> QED
    BY <1>2, <2>1, SameTyped
<1>7. CASE Create /\ ~Fails
  BY <1>7, CreateTyped
<1>8. CASE Send
  <2>1. pc' \in {"done", "refused"} /\ UNCHANGED <<up, at, srv, seen, made>>
    BY <1>8 DEF Send
  <2> QED
    BY <1>2, <2>1, SameTyped
<1>9. CASE Change
  <2>1. srv' \in Optional(Schemas) /\ UNCHANGED <<pc, up, at, seen, made>>
    BY <1>9 DEF Change, Optional
  <2>2. OptSchema(srv')
    BY <2>1, OneOfSchemas
  <2> QED
    BY <2>1, <2>2, SameTyped DEF Typed
<1>10. CASE UNCHANGED vars
  <2>1. UNCHANGED <<pc, up, at, srv, seen, made>>
    BY <1>10 DEF vars
  <2> QED
    BY <1>2, <2>1, SameTyped DEF Typed
<1> QED
  BY <1>3, <1>4, <1>5, <1>6, <1>7, <1>8, <1>9, <1>10 DEF UpsertStep, Fail

-----------------------------------------------------------------------------
(* The invariant of a query.                                               *)

\* Where a query can be.
Asked ==
  /\ query = <<query[1]>> /\ query[1] \in Queries
  /\ stmt = NoUpsert /\ up = NoUpsert /\ at = 1 /\ made = <<>>
  /\ srv \in Optional(Schemas)
  /\ pc \in {"resolve", "collect", "request", "done", "error"}

\* The tree is the query as it came, or what the schema made of it.
TreeIs ==
  /\ IsStatement(tree)
  /\ \/ /\ tree = query[1] /\ seen = <<>>
        /\ pc \notin {"resolve", "error"} => ~NeedsKind(query[1])
     \/ /\ pc # "resolve" /\ seen = srv /\ srv # <<>>
        /\ Configure(query[1], Names(srv[1])) = Ok(tree)

\* The jobs are those of the tree, and what has come for them is theirs.
JobsAre ==
  /\ jobs \in Seq(AnyJob) /\ Coming(jobs, outs)
  /\ pc \in {"resolve", "collect"} => jobs = <<>>
  /\ pc \in {"request", "done"} => QueryJobs(tree) = Ok(jobs)
  /\ pc = "error" => \/ jobs = <<>> \/ \E i \in 1..Len(jobs) : outs[i] = <<>>
                     \/ ~SparedAll(tree, void)
  /\ result # <<>> => pc = "done" /\ result = Ok(Embedded(tree)) /\ SparedAll(tree, void)

\* The invariant of a query on its way.
QueryInv == Asked /\ TreeIs /\ JobsAre

\* Nothing to embed, nothing has come.
LEMMA NoJobs ==
  ASSUME NEW j, NEW o, j = <<>>, o = <<>>
  PROVE  j \in Seq(AnyJob) /\ Coming(j, o)
<1>1. j \in Seq(AnyJob) /\ Len(j) = 0
  OBVIOUS
<1>2. o = [i \in 1..0 |-> o[i]]
  OBVIOUS
<1> QED
  BY <1>1, <1>2 DEF Coming

\* A query is a statement.
LEMMA Statements == \A t \in Queries : IsStatement(t)
BY QueryAssumption

\* A step of a query changes nothing of an upsert.
LEMMA MovesIs ==
  ASSUME NEW to, Moves(to)
  PROVE  pc' = to /\ UNCHANGED <<http, stmt, up, at, srv, made, changes>>
BY DEF Moves

\* So it stays one query of the program, for one collection.
LEMMA StaysAsked ==
  ASSUME Asked, NEW to, Moves(to), to \in {"resolve", "collect", "request", "done", "error"},
         query' = query
  PROVE  Asked'
<1>1. pc' = to /\ UNCHANGED <<stmt, up, at, srv, made>>
  BY MovesIs
<1> QED
  BY <1>1 DEF Asked, Optional, NoUpsert

\* The targets are resolved.
LEMMA ResolveQueryStep == QueryInv /\ ResolveQuery => QueryInv'
<1> SUFFICES ASSUME QueryInv, ResolveQuery PROVE QueryInv'
  OBVIOUS
<1> DEFINE resolved == IF srv = <<>> /\ NeedsKind(tree) THEN Error
                       ELSE IF NeedsKind(tree) THEN Resolve(tree, srv[1]) ELSE Ok(tree)
<1>1. /\ pc = "resolve" /\ UNCHANGED <<query, jobs, outs, void, result>>
      /\ IF resolved = Error THEN Moves("error") /\ UNCHANGED <<seen, tree>>
         ELSE /\ tree' = resolved[1]
              /\ seen' = IF NeedsKind(tree) THEN srv ELSE seen
              /\ Moves("collect")
  BY DEF ResolveQuery
<1>2. /\ Asked /\ query[1] \in Queries /\ srv \in Optional(Schemas)
      /\ tree = query[1] /\ seen = <<>> /\ jobs = <<>> /\ result = <<>>
  BY <1>1 DEF QueryInv, Asked, TreeIs, JobsAre
<1>3. IsStatement(query[1])
  BY <1>2, Statements
<1>4. jobs \in Seq(AnyJob) /\ Coming(jobs, outs)
  BY DEF QueryInv, JobsAre
<1>5. CASE resolved = Error
  <2>1. Moves("error") /\ UNCHANGED <<seen, tree>>
    BY <1>1, <1>5
  <2>2. pc' = "error"
    BY <2>1, MovesIs
  <2>3. Asked'
    BY <1>1, <1>2, <2>1, StaysAsked
  <2>4. TreeIs'
    BY <1>1, <1>2, <1>3, <2>1, <2>2 DEF TreeIs
  <2>5. JobsAre'
    BY <1>1, <1>2, <1>4, <2>2 DEF JobsAre
  <2> QED
    BY <2>3, <2>4, <2>5 DEF QueryInv
<1>6. CASE resolved # Error
  <2>1. /\ tree' = resolved[1] /\ Moves("collect")
        /\ seen' = IF NeedsKind(tree) THEN srv ELSE seen
    BY <1>1, <1>6
  <2>2. pc' = "collect" /\ srv' = srv
    BY <2>1, MovesIs
  <2>3. Asked'
    BY <1>1, <1>2, <2>1, StaysAsked
  <2>4. JobsAre'
    BY <1>1, <1>2, <1>4, <2>2 DEF JobsAre
  <2>5. CASE ~NeedsKind(tree)
    <3>1. resolved = Ok(tree)
      BY <2>5
    <3>2. tree' = tree /\ seen' = seen
      BY <2>1, <2>5, <3>1, ErrorIsNotOk
    <3>3. TreeIs'
      BY <1>1, <1>2, <1>3, <2>2, <2>5, <3>2 DEF TreeIs
    <3> QED
      BY <2>3, <2>4, <3>3 DEF QueryInv
  <2>6. CASE NeedsKind(tree)
    <3>1. srv # <<>> /\ resolved = Configure(tree, Names(srv[1])) /\ seen' = srv
      BY <1>6, <2>1, <2>6 DEF Resolve
    <3>2. PICK s \in Schemas : srv = <<s>>
      BY <1>2, <3>1 DEF Optional
    <3>3. PICK names : names = Names(srv[1])
      OBVIOUS
    <3>4. AreNames(names)
      <4>1. srv[1] = s
        BY <3>2
      <4> QED
        BY <3>2, <3>3, <4>1, SchemaNames
    <3>5. Configure(query[1], names) # Error /\ tree' = Configure(query[1], names)[1]
      <4> HIDE DEF resolved
      <4> QED
        BY <1>2, <1>6, <2>1, <3>1, <3>3
    <3>6. PICK u : u = Configure(query[1], names)[1]
      OBVIOUS
    <3>7. /\ Configure(query[1], names) = Ok(u) /\ DOMAIN u = DOMAIN query[1]
          /\ u = [i \in DOMAIN query[1] |-> u[i]]
          /\ \A i \in DOMAIN query[1] : Configured(names, query[1][i], u[i])
      BY <1>3, <3>4, <3>5, <3>6, ConfigureIs
    <3>8. IsStatement(u)
      BY <1>3, <3>7, ConfiguredStatement
    <3>9. tree' = u
      BY <3>5, <3>6
    <3>10. TreeIs'
      BY <1>1, <2>2, <3>1, <3>3, <3>7, <3>8, <3>9 DEF TreeIs
    <3> QED
      BY <2>3, <2>4, <3>10 DEF QueryInv
  <2> QED
    BY <2>5, <2>6
<1> QED
  BY <1>5, <1>6

\* A step that leaves the tree alone, and does not go back.
LEMMA SameTree ==
  ASSUME TreeIs, pc \in {"collect", "request"}, pc' # "resolve", UNCHANGED <<query, tree, seen, srv>>
  PROVE  TreeIs'
BY DEF TreeIs

\* The jobs are collected, with room for their vectors.
LEMMA CollectStep == QueryInv /\ Collect => QueryInv'
<1> SUFFICES ASSUME QueryInv, Collect PROVE QueryInv'
  OBVIOUS
<1> DEFINE found == QueryJobs(tree)
           room == [i \in DOMAIN found[1] |-> <<>>]
<1>1. /\ pc = "collect" /\ UNCHANGED <<seen, query, tree, void, result>>
      /\ IF found = Error THEN Moves("error") /\ UNCHANGED <<jobs, outs>>
         ELSE jobs' = found[1] /\ outs' = room /\ Moves("request")
  BY DEF Collect
<1>2. /\ Asked /\ TreeIs /\ IsStatement(tree) /\ jobs = <<>> /\ result = <<>>
      /\ jobs \in Seq(AnyJob) /\ Coming(jobs, outs)
  BY <1>1 DEF QueryInv, TreeIs, JobsAre
<1>3. CASE found = Error
  <2>1. Moves("error") /\ UNCHANGED <<jobs, outs>>
    BY <1>1, <1>3
  <2>2. pc' = "error" /\ srv' = srv
    BY <2>1, MovesIs
  <2>3. Asked'
    BY <1>1, <1>2, <2>1, StaysAsked
  <2>4. TreeIs'
    BY <1>1, <1>2, <2>2, SameTree
  <2>5. JobsAre'
    BY <1>1, <1>2, <2>1, <2>2 DEF JobsAre
  <2> QED
    BY <2>3, <2>4, <2>5 DEF QueryInv
<1>4. CASE found # Error
  <2>1. jobs' = found[1] /\ outs' = room /\ Moves("request")
    BY <1>1, <1>4
  <2>2. pc' = "request" /\ srv' = srv
    BY <2>1, MovesIs
  <2>3. PICK js : js = FlattenSeq(WalkJobs(tree))
    OBVIOUS
  <2>4. QueryJobs(tree) = Ok(js) /\ js \in Seq(AnyJob)
    BY <1>2, <1>4, <2>3, QueryJobsAre
  <2>5. jobs' = js /\ outs' = [i \in DOMAIN js |-> <<>>]
    BY <2>1, <2>4, ErrorIsNotOk
  <2>6. Len(js) \in Nat /\ DOMAIN js = 1..Len(js)
    BY <2>4, LenProperties
  <2>7. Coming(js, outs')
    BY <2>5, <2>6 DEF Coming
  <2>8. Asked'
    BY <1>1, <1>2, <2>1, StaysAsked
  <2>9. TreeIs'
    BY <1>1, <1>2, <2>2, SameTree
  <2>10. JobsAre'
    BY <1>1, <1>2, <2>2, <2>4, <2>5, <2>7 DEF JobsAre
  <2> QED
    BY <2>8, <2>9, <2>10 DEF QueryInv
<1> QED
  BY <1>3, <1>4

\* A request brings the vectors of its jobs.
LEMMA RequestStep == QueryInv /\ Request => QueryInv'
<1> SUFFICES ASSUME QueryInv, Request PROVE QueryInv'
  OBVIOUS
<1>1. PICK request, inputs :
        /\ request = NextRequest(jobs, outs)
        /\ inputs = [k \in DOMAIN request.positions |-> jobs[request.positions[k]].input]
  OBVIOUS
<1>2. PICK answer \in Answers(http, request.modality, request.model, inputs) :
        IF answer = <<>> THEN Moves("error") /\ UNCHANGED <<outs, void>>
        ELSE \E none \in SUBSET MayBeEmpty(answer[1]) :
               /\ outs' = Spread(request, answer[1], outs)
               /\ void' = void \union none
               /\ Moves("request")
  BY <1>1 DEF Request
<1>3. /\ pc = "request" /\ <<>> \in {outs[i] : i \in DOMAIN outs}
      /\ UNCHANGED <<seen, query, tree, jobs, result>>
  BY DEF Request
<1>4. /\ Asked /\ TreeIs /\ QueryJobs(tree) = Ok(jobs) /\ result = <<>>
      /\ jobs \in Seq(AnyJob) /\ Coming(jobs, outs)
  BY <1>3 DEF QueryInv, TreeIs, JobsAre
<1>5. DOMAIN outs = 1..Len(jobs)
  <2>1. outs = [i \in 1..Len(jobs) |-> outs[i]]
    BY <1>4 DEF Coming
  <2> QED
    BY <2>1
<1>6. PICK z \in 1..Len(jobs) : outs[z] = <<>>
  BY <1>3, <1>5
<1>7. CASE answer = <<>>
  <2>1. Moves("error") /\ outs' = outs
    BY <1>2, <1>7
  <2>2. pc' = "error" /\ srv' = srv
    BY <2>1, MovesIs
  <2>3. Asked'
    BY <1>3, <1>4, <2>1, StaysAsked
  <2>4. TreeIs'
    BY <1>3, <1>4, <2>2, SameTree
  <2>5. JobsAre'
    BY <1>3, <1>4, <1>6, <2>1, <2>2 DEF JobsAre
  <2> QED
    BY <2>3, <2>4, <2>5 DEF QueryInv
<1>8. CASE answer # <<>>
  <2>1. outs' = Spread(request, answer[1], outs) /\ Moves("request")
    BY <1>2, <1>8
  <2>2. pc' = "request" /\ srv' = srv
    BY <2>1, MovesIs
  <2>3. Coming(jobs, outs')
    BY <1>1, <1>4, <1>6, <1>8, <2>1, SpreadIs
  <2>4. Asked'
    BY <1>3, <1>4, <2>1, StaysAsked
  <2>5. TreeIs'
    BY <1>3, <1>4, <2>2, SameTree
  <2>6. JobsAre'
    BY <1>3, <1>4, <2>2, <2>3 DEF JobsAre
  <2> QED
    BY <2>4, <2>5, <2>6 DEF QueryInv
<1> QED
  BY <1>7, <1>8

\* The vectors are put into the tree.
LEMMA PutVectorsStep == QueryInv /\ PutVectors => QueryInv'
<1> SUFFICES ASSUME QueryInv, PutVectors PROVE QueryInv'
  OBVIOUS
<1>1. /\ pc = "request" /\ <<>> \notin {outs[i] : i \in DOMAIN outs}
      /\ result' = Apply(tree, jobs, outs, void)
      /\ Moves(IF result' = Error THEN "error" ELSE "done")
      /\ UNCHANGED <<seen, query, tree, jobs, outs, void>>
  BY DEF PutVectors
<1>2. /\ Asked /\ TreeIs /\ IsStatement(tree) /\ QueryJobs(tree) = Ok(jobs)
      /\ jobs \in Seq(AnyJob) /\ Coming(jobs, outs)
  BY <1>1 DEF QueryInv, TreeIs, JobsAre
<1>3. Answered(jobs, outs)
  <2>1. outs = [i \in 1..Len(jobs) |-> outs[i]]
        /\ \A i \in 1..Len(jobs) : outs[i] \in {<<>>, <<VecOf(jobs[i])>>}
    BY <1>2 DEF Coming
  <2>2. DOMAIN outs = 1..Len(jobs)
    BY <2>1
  <2> QED
    BY <1>1, <2>1, <2>2 DEF Answered
<1>4. result' = IF SparedAll(tree, void) THEN Ok(Embedded(tree)) ELSE Error
  BY <1>1, <1>2, <1>3, WalksAgree
<1>5. CASE SparedAll(tree, void)
  <2>1. result' = Ok(Embedded(tree)) /\ result' # Error
    BY <1>4, <1>5, ErrorIsNotOk
  <2>2. Moves("done")
    BY <1>1, <2>1
  <2>3. pc' = "done" /\ srv' = srv
    BY <2>2, MovesIs
  <2>4. Asked'
    BY <1>1, <1>2, <2>2, StaysAsked
  <2>5. TreeIs'
    BY <1>1, <1>2, <2>3, SameTree
  <2>6. JobsAre'
    BY <1>1, <1>2, <1>5, <2>1, <2>3 DEF JobsAre
  <2> QED
    BY <2>4, <2>5, <2>6 DEF QueryInv
<1>6. CASE ~SparedAll(tree, void)
  <2>1. result' = Error /\ Moves("error")
    BY <1>1, <1>4, <1>6
  <2>2. pc' = "error" /\ srv' = srv /\ result' = <<>>
    BY <2>1, MovesIs DEF Error
  <2>3. Asked'
    BY <1>1, <1>2, <2>1, StaysAsked
  <2>4. TreeIs'
    BY <1>1, <1>2, <2>2, SameTree
  <2>5. JobsAre'
    BY <1>1, <1>2, <1>6, <2>2 DEF JobsAre
  <2> QED
    BY <2>3, <2>4, <2>5 DEF QueryInv
<1> QED
  BY <1>5, <1>6

\* Nothing happens.
LEMMA QuerySame == QueryInv /\ UNCHANGED allVars => QueryInv'
<1> SUFFICES ASSUME QueryInv, UNCHANGED allVars PROVE QueryInv'
  OBVIOUS
<1>1. UNCHANGED <<pc, http, stmt, up, at, srv, seen, made, changes, query, tree, jobs, outs, void,
               result>>
  BY DEF allVars, vars, qvars
<1>2. Asked'
  BY <1>1 DEF QueryInv, Asked, Optional, NoUpsert
<1>3. TreeIs'
  BY <1>1 DEF QueryInv, TreeIs
<1>4. JobsAre'
  BY <1>1 DEF QueryInv, JobsAre
<1> QED
  BY <1>2, <1>3, <1>4 DEF QueryInv

\* A query takes no step of an upsert.
LEMMA NoUpsertStep == QueryInv => ~UpsertStep
<1> SUFFICES ASSUME QueryInv, UpsertStep PROVE FALSE
  OBVIOUS
<1>1. pc \in {"resolve", "collect", "request", "done", "error"}
  BY DEF QueryInv, Asked
<1>2. pc \in {"configure", "embed", "create", "send"}
  BY DEF UpsertStep, ConfigureBare, ConfigureMissing, ConfigureKnown, EmbedLeg, Ensure, AllEmbedded,
         Create, Send, Fail, Change
<1> QED
  BY <1>1, <1>2

\* Every step keeps the invariant of a query.
LEMMA QueryStep == QueryInv /\ [Next]_allVars => QueryInv'
BY ResolveQueryStep, CollectStep, RequestStep, PutVectorsStep, QuerySame, NoUpsertStep DEF Next

-----------------------------------------------------------------------------
(* The preparation as a whole.                                             *)

\* The part of an upsert that a query does not share.
OnlyUpsert ==
  query = <<>> /\ tree = <<>> /\ jobs = <<>> /\ outs = <<>> /\ void = {} /\ result = <<>>

\* The invariant of an upsert on its way.
UpsertInv == OnlyUpsert /\ IInv /\ Typed

\* An upsert or a query starts.
LEMMA InitCases == Init => (OnlyUpsert /\ UpsertInit) \/ (query # <<>> /\ QueryInv)
<1> SUFFICES ASSUME Init PROVE (OnlyUpsert /\ UpsertInit) \/ (query # <<>> /\ QueryInv)
  OBVIOUS
<1>1. CASE UpsertInit /\ query = <<>> /\ tree = <<>> /\ jobs = <<>> /\ outs = <<>> /\ void = {} /\ result = <<>>
  BY <1>1 DEF OnlyUpsert
<1>2. CASE /\ query \in {<<q>> : q \in Queries}
           /\ tree = query[1] /\ jobs = <<>> /\ outs = <<>> /\ void = {} /\ result = <<>>
           /\ pc = "resolve"
           /\ srv \in {<<>>} \union {<<s>> : s \in Schemas}
           /\ stmt = NoUpsert /\ up = NoUpsert /\ at = 1
           /\ seen = <<>> /\ made = <<>>
  <2>1. PICK q \in Queries : query = <<q>>
    BY <1>2
  <2>2. query # <<>> /\ query = <<query[1]>> /\ query[1] \in Queries
    BY <2>1
  <2>3. srv \in Optional(Schemas)
    BY <1>2 DEF Optional
  <2>4. Asked
    BY <1>2, <2>2, <2>3 DEF Asked
  <2>5. IsStatement(tree)
    BY <1>2, <2>2, Statements
  <2>6. TreeIs
    BY <1>2, <2>5 DEF TreeIs
  <2>7. JobsAre
    BY <1>2, NoJobs DEF JobsAre
  <2> QED
    BY <2>2, <2>4, <2>6, <2>7 DEF QueryInv
<1> QED
  BY <1>1, <1>2 DEF Init

\* An upsert takes its own steps only.
LEMMA UpsertStays == UpsertInv /\ [Next]_allVars => UpsertInv' /\ [UpsertStep]_vars
<1> SUFFICES ASSUME UpsertInv, [Next]_allVars PROVE UpsertInv' /\ [UpsertStep]_vars
  OBVIOUS
<1>1. pc \notin {"resolve", "collect", "request"}
  BY DEF UpsertInv, Typed
<1>2. ~(ResolveQuery \/ Collect \/ Request \/ PutVectors)
  BY <1>1 DEF ResolveQuery, Collect, Request, PutVectors
<1>3. (UpsertStep /\ UNCHANGED qvars) \/ UNCHANGED allVars
  BY <1>2 DEF Next
<1>4. [UpsertStep]_vars /\ UNCHANGED qvars
  BY <1>3 DEF allVars
<1>5. OnlyUpsert'
  BY <1>4 DEF UpsertInv, OnlyUpsert, qvars
<1>6. IInv' /\ Typed'
  BY <1>4, StepOwn, StepTyped DEF UpsertInv
<1> QED
  BY <1>4, <1>5, <1>6 DEF UpsertInv

\* It starts with its invariant.
LEMMA UpsertStarts == OnlyUpsert /\ UpsertInit => UpsertInv
BY InitOwn, TypedInit DEF UpsertInv

\* An upsert takes the steps of UpsertEmbed and no others (UpsertSpec).
THEOREM UpsertAsAlone == Spec /\ query = <<>> => UpsertSpec
<1>1. Init /\ query = <<>> => OnlyUpsert /\ UpsertInit
  BY InitCases
<1>2. UpsertInv /\ [Next]_allVars => UpsertInv'
  BY UpsertStays
<1>3. UpsertInv /\ [Next]_allVars => [UpsertStep]_vars
  BY UpsertStays
<1> QED
  BY <1>1, <1>2, <1>3, UpsertStarts, PTL DEF Spec, UpsertSpec

\* The invariant of the preparation.
THEOREM Prepared == Spec => [](UpsertInv \/ QueryInv)
<1>1. Init => UpsertInv \/ QueryInv
  BY InitCases, UpsertStarts
<1>2. (UpsertInv \/ QueryInv) /\ [Next]_allVars => (UpsertInv \/ QueryInv)'
  BY UpsertStays, QueryStep
<1> QED
  BY <1>1, <1>2, PTL DEF Spec

\* An upsert is of the types,
LEMMA UpsertTypes == UpsertInv => TypeOK
<1> SUFFICES ASSUME UpsertInv PROVE TypeOK
  OBVIOUS
<1>1. /\ pc \in {"configure", "embed", "create", "send", "done", "refused", "error"}
      /\ at \in 1..(Len(up.legs) + 1)
      /\ PointNames(up.points)
      /\ OptSchema(srv) /\ OptSchema(seen) /\ OptSchema(made)
  BY DEF UpsertInv, Typed
<1>2. DOMAIN up.points = DOMAIN stmt.points
  <2>1. stmt \in Upserts /\ DOMAIN up.points = 1..Len(stmt.points)
    BY DEF UpsertInv, IInv, Kept
  <2> QED
    BY <2>1, Statement
<1>3. DOMAIN outs = DOMAIN jobs
  BY DEF UpsertInv, OnlyUpsert
<1>4. ASSUME NEW s \in {srv, seen, made} \ {<<>>} PROVE s = <<s[1]>> /\ s[1] \in SchemaType
  BY <1>1 DEF OptSchema
<1> QED
  BY <1>1, <1>2, <1>3, <1>4 DEF TypeOK, PointNames, SchemaType

\* and so is a query.
LEMMA QueryTypes == QueryInv => TypeOK
<1> SUFFICES ASSUME QueryInv PROVE TypeOK
  OBVIOUS
<1>1. /\ pc \in {"resolve", "collect", "request", "done", "error"}
      /\ stmt = NoUpsert /\ up = NoUpsert /\ at = 1 /\ made = <<>> /\ srv \in Optional(Schemas)
      /\ seen = <<>> \/ seen = srv
      /\ jobs \in Seq(AnyJob) /\ Coming(jobs, outs)
  BY DEF QueryInv, Asked, TreeIs, JobsAre
<1>2. up.points = <<>> /\ up.legs = <<>> /\ stmt.points = <<>>
  BY <1>1 DEF NoUpsert
<1>3. at \in 1..(Len(up.legs) + 1)
  BY <1>1, <1>2
<1>4. DOMAIN outs = DOMAIN jobs
  <2>1. outs = [i \in 1..Len(jobs) |-> outs[i]] /\ DOMAIN jobs = 1..Len(jobs)
    BY <1>1, LenProperties DEF Coming
  <2> QED
    BY <2>1
<1>5. ASSUME NEW s \in {srv, seen, made} \ {<<>>} PROVE s = <<s[1]>> /\ s[1] \in SchemaType
  BY <1>1, OneOfSchemas DEF OptSchema
<1> QED
  BY <1>1, <1>2, <1>3, <1>4, <1>5 DEF TypeOK, SchemaType

\* Type correctness of a preparation (TypeOK), for every set of names, schemas,
\* statements and queries.
THEOREM TypeCorrect == Spec => []TypeOK
<1>1. UpsertInv \/ QueryInv => TypeOK
  BY UpsertTypes, QueryTypes
<1> QED
  BY <1>1, Prepared, PTL

\* A query that goes out has every input replaced by its own vector, and one that is
\* answered is given up exactly when a vector the second walk looks at is empty
\* (EmbedsTheQuery), for every tree of queries, grouping of its inputs and order of
\* the answers.
THEOREM QueryEmbedded == Spec => []EmbedsTheQuery
<1>1. UpsertInv => EmbedsTheQuery
  BY DEF UpsertInv, OnlyUpsert, EmbedsTheQuery
<1>2. QueryInv => EmbedsTheQuery
  <2> SUFFICES ASSUME QueryInv PROVE EmbedsTheQuery
    OBVIOUS
  <2>1. /\ jobs \in Seq(AnyJob) /\ Coming(jobs, outs)
        /\ pc = "error" => \/ jobs = <<>> \/ \E i \in 1..Len(jobs) : outs[i] = <<>>
                           \/ ~SparedAll(tree, void)
        /\ result # <<>> => result = Ok(Embedded(tree)) /\ SparedAll(tree, void)
    BY DEF QueryInv, JobsAre
  <2>2. DOMAIN outs = 1..Len(jobs)
    <3>1. outs = [i \in 1..Len(jobs) |-> outs[i]]
      BY <2>1 DEF Coming
    <3> QED
      BY <3>1
  <2>3. result # <<>> => result[1] = Embedded(tree) /\ SparedAll(tree, void)
    BY <2>1, ErrorIsNotOk
  <2>4. pc = "error" /\ DOMAIN outs # {} /\ <<>> \notin {outs[i] : i \in DOMAIN outs}
        => ~SparedAll(tree, void)
    <3>1. jobs = <<>> => Len(jobs) = 0
      OBVIOUS
    <3> QED
      BY <2>1, <2>2, <3>1
  <2> QED
    BY <2>3, <2>4 DEF EmbedsTheQuery
<1> QED
  BY <1>1, <1>2, Prepared, PTL

\* Skipping the schema walk loses nothing (SkipIsSafe), for every query and schema.
THEOREM SkippingIsSafe == Spec => []SkipIsSafe
<1>1. UpsertInv => SkipIsSafe
  BY DEF UpsertInv, OnlyUpsert, SkipIsSafe
<1>2. QueryInv => SkipIsSafe
  <2> SUFFICES ASSUME QueryInv, pc = "done", srv # <<>>
               PROVE  Configure(query[1], Names(srv[1])) \in {Error, Ok(tree)}
    BY DEF SkipIsSafe
  <2>1. /\ query[1] \in Queries /\ srv \in Optional(Schemas)
        /\ \/ tree = query[1] /\ ~NeedsKind(query[1])
           \/ Configure(query[1], Names(srv[1])) = Ok(tree)
    BY DEF QueryInv, Asked, TreeIs
  <2>2. CASE tree = query[1] /\ ~NeedsKind(query[1])
    <3>1. PICK s \in Schemas : srv = <<s>>
      BY <2>1 DEF Optional
    <3>2. AreNames(Names(srv[1]))
      BY <3>1, SchemaNames
    <3> QED
      BY <2>1, <2>2, <3>2, Statements, NothingToFill
  <2>3. CASE Configure(query[1], Names(srv[1])) = Ok(tree)
    BY <2>3
  <2> QED
    BY <2>1, <2>2, <2>3
<1> QED
  BY <1>1, <1>2, Prepared, PTL

\* What an expression sends is what its settled target asks for (TextModality), and
\* an image is sent to a dense target of plain vectors only (ImageFits).
LEMMA ClassesAre ==
  ASSUME NEW e, Formed(e), e.op \in {"points", "rerank"}, ExprJobs(e) # Error
  PROVE  /\ Aim(e).kind = "sparse" => Classes(e, EmbeddedExpr(e)) \subseteq {"sparse"}
         /\ Aim(e).kind # "sparse" /\ Aim(e).multi => Classes(e, EmbeddedExpr(e)) \subseteq {"multi"}
         /\ Aim(e).kind # "sparse" /\ ~Aim(e).multi => Classes(e, EmbeddedExpr(e)) \subseteq {"dense", "image"}
<1>1. /\ e.inputs \in Seq(Input)
      /\ \A k \in 1..Len(e.inputs) : e.inputs[k].type = "image" => ImageFits(Aim(e))
  BY InputsJobs
<1>2. DOMAIN e.inputs = 1..Len(e.inputs)
  BY <1>1, LenProperties
<1> DEFINE own == [k \in DOMAIN e.inputs |-> OwnVector(e.inputs[k], Aim(e), DefaultModel(e))]
           class(x) == IF x.type = "text" THEN TextModality(Aim(e)) ELSE "image"
<1>3. EmbeddedExpr(e).inputs = own
  <2>1. EmbeddedExpr(e) = [e EXCEPT !.inputs = own]
    BY DEF EmbeddedExpr, Aim
  <2>2. e \in Query
    BY DEF Formed
  <2> HIDE DEF own
  <2> QED
    BY <2>1, <2>2 DEF Query
<1>4. ASSUME NEW k \in DOMAIN e.inputs, e.inputs[k].type \in {"text", "image"}
      PROVE  own[k].value[1] = class(e.inputs[k])
  <2>1. own[k] = OwnVector(e.inputs[k], Aim(e), DefaultModel(e))
    OBVIOUS
  <2> HIDE DEF own
  <2> QED
    BY <1>4, <2>1 DEF OwnVector, VectorInput, Vec
<1>5. ASSUME NEW c \in Classes(e, EmbeddedExpr(e))
      PROVE  \E k \in 1..Len(e.inputs) : e.inputs[k].type \in {"text", "image"} /\ c = class(e.inputs[k])
  <2>1. PICK k \in DOMAIN e.inputs : e.inputs[k].type \in {"text", "image"} /\ c = own[k].value[1]
    <3> HIDE DEF own
    <3> QED
      BY <1>3 DEF Classes
  <2> HIDE DEF own, class
  <2> QED
    BY <1>2, <1>4, <2>1
<1> HIDE DEF own
<1>6. ASSUME NEW c \in Classes(e, EmbeddedExpr(e))
      PROVE  \/ c = TextModality(Aim(e))
             \/ c = "image" /\ Aim(e).kind # "sparse" /\ ~Aim(e).multi
  BY <1>1, <1>5 DEF ImageFits
<1> QED
  BY <1>6 DEF TextModality

\* Outside HYBRID, what is embedded for a target the schema has is what the target
\* takes (KindsFit), for every query and schema.
THEOREM KindsAreFit == Spec => []KindsFit
<1>1. UpsertInv => KindsFit
  BY DEF UpsertInv, OnlyUpsert, KindsFit
<1>2. QueryInv => KindsFit
  <2> SUFFICES ASSUME QueryInv, seen # <<>>, result # <<>> PROVE KindsFit
    BY DEF KindsFit
  <2>1. /\ query[1] \in Queries /\ srv \in Optional(Schemas) /\ srv # <<>> /\ seen = srv
        /\ Configure(query[1], Names(srv[1])) = Ok(tree)
        /\ IsStatement(tree) /\ QueryJobs(tree) # Error /\ result[1] = Embedded(tree)
    BY ErrorIsNotOk DEF QueryInv, Asked, TreeIs, JobsAre
  <2>2. PICK names : names = Names(seen[1])
    OBVIOUS
  <2>3. AreNames(names)
    <3>1. PICK s \in Schemas : srv = <<s>>
      BY <2>1 DEF Optional
    <3> QED
      BY <2>1, <2>2, <3>1, SchemaNames
  <2>4. Configure(query[1], names) # Error /\ tree = Configure(query[1], names)[1]
    BY <2>1, <2>2, ErrorIsNotOk
  <2>5. DOMAIN tree = DOMAIN query[1] /\ \A i \in DOMAIN query[1] : Configured(names, query[1][i], tree[i])
    BY <2>1, <2>3, <2>4, Statements, ConfigureIs
  <2>6. \A i \in DOMAIN query[1] : query[1][i] \in Query
    BY <2>1, Statements, StatementShape
  <2>7. \A i \in DOMAIN tree : Formed(tree[i]) /\ ExprJobs(tree[i]) # Error
    <3>1. DOMAIN tree = 1..Len(tree) /\ \A i \in 1..Len(tree) : Formed(tree[i])
      BY <2>1, StatementFormed, StatementShape, LenProperties DEF IsStatement
    <3>2. /\ Collected(tree) \in Seq(1..Len(tree)) /\ Rng(Collected(tree)) = 1..Len(tree)
          /\ \A n \in 1..Len(Collected(tree)) : ExprJobs(tree[Collected(tree)[n]]) # Error
      BY <2>1, WalkOnce, QueryJobsAre
    <3> QED
      BY <3>1, <3>2 DEF Rng
  <2>8. ASSUME NEW i \in DOMAIN tree
        PROVE  LET e == tree[i]
                   classes == Classes(e, result[1][i])
                   AsMulti == query[1][i].using # <<>> /\ query[1][i].using[1].multi
               IN  /\ e.op \in {"points", "rerank"} =>
                        IF e.using = <<>>
                        THEN NoName \in names.dense /\ classes \subseteq {"dense", "image"}
                        ELSE LET name == e.using[1].name
                             IN  /\ name \in names.sparse => classes \subseteq {"sparse"}
                                 /\ name \in names.dense => "sparse" \notin classes
                                 /\ name \in names.dense \intersect names.multi => classes \subseteq {"multi"}
                                 /\ name \in names.dense \ names.multi /\ "multi" \in classes => AsMulti
                   /\ e.op = "hybrid" => /\ e.names[1] # <<>> /\ e.names[1][1] \in names.dense
                                         /\ e.names[2] # <<>> /\ e.names[2][1] \in names.sparse
    <3>1. PICK e, was, classes : e = tree[i] /\ was = query[1][i] /\ classes = Classes(e, result[1][i])
      OBVIOUS
    <3>2. Configured(names, was, e)
      BY <2>5, <3>1
    <3>3. e.op = was.op
      BY <2>5, <2>6, <3>1, <3>2, ConfiguredKeeps
    <3>4. CASE e.op = "hybrid"
      BY <3>1, <3>2, <3>3, <3>4 DEF Configured
    <3>5. CASE e.op \in {"points", "rerank"}
      <4>1. Suits(names, was.using, e.using)
        BY <3>2, <3>3, <3>5 DEF Configured
      <4>2. Formed(e) /\ ExprJobs(e) # Error
        BY <2>7, <3>1
      <4>3. classes = Classes(e, EmbeddedExpr(e))
        BY <2>1, <3>1 DEF Embedded
      <4>4. /\ Aim(e).kind = "sparse" => classes \subseteq {"sparse"}
            /\ Aim(e).kind # "sparse" /\ Aim(e).multi => classes \subseteq {"multi"}
            /\ Aim(e).kind # "sparse" /\ ~Aim(e).multi => classes \subseteq {"dense", "image"}
        BY <3>5, <4>2, <4>3, ClassesAre
      <4>5. CASE e.using = <<>>
        <5>1. Aim(e).kind = "dense" /\ Aim(e).multi = FALSE
          BY <4>5 DEF Aim, Target, Ok
        <5>2. NoName \in names.dense
          BY <4>1, <4>5 DEF Suits
        <5> QED
          BY <3>1, <3>5, <4>4, <4>5, <5>1, <5>2
      <4>6. CASE e.using # <<>>
        <5>1. PICK name, kind, multi : name = e.using[1].name /\ kind = e.using[1].kind /\ multi = e.using[1].multi
          OBVIOUS
        <5>2. /\ kind # "none"
              /\ KindOf(names, name) # "none" =>
                   kind = KindOf(names, name) /\ (name \in names.multi => multi)
              /\ multi => name \in names.multi \/ (was.using # <<>> /\ was.using[1].multi)
          BY <4>1, <4>6, <5>1 DEF Suits
        <5>3. Aim(e).kind = kind /\ Aim(e).multi = multi
          BY <4>6, <5>1, <5>2 DEF Aim, Target, Ok
        <5>4. name \in names.sparse => kind = "sparse"
          BY <2>3, <5>2 DEF KindOf, AreNames
        <5>5. name \in names.dense => kind = "dense" /\ (name \in names.multi => multi)
          BY <5>2 DEF KindOf
        <5>6. multi \/ ~multi
          OBVIOUS
        <5>7. name \in names.sparse => classes \subseteq {"sparse"}
          BY <4>4, <5>3, <5>4
        <5>8. name \in names.dense => "sparse" \notin classes
          BY <4>4, <5>3, <5>5
        <5>9. name \in names.dense \intersect names.multi => classes \subseteq {"multi"}
          BY <4>4, <5>3, <5>5
        <5>10. name \in names.dense \ names.multi /\ "multi" \in classes
               => was.using # <<>> /\ was.using[1].multi
          BY <4>4, <5>2, <5>3, <5>5
        <5> QED
          BY <3>1, <3>5, <4>6, <5>1, <5>7, <5>8, <5>9, <5>10
      <4> QED
        BY <4>5, <4>6
    <3>6. CASE e.op \notin {"points", "rerank", "hybrid"}
      BY <3>1, <3>6
    <3> QED
      BY <3>4, <3>5, <3>6
  <2> QED
    BY <2>2, <2>8 DEF KindsFit
<1> QED
  BY <1>1, <1>2, Prepared, PTL

\* A query promises nothing about points.
LEMMA QueryPromises == QueryInv => EachPointItsOwn /\ UserVectorsKept /\ TargetsFit
<1> SUFFICES ASSUME QueryInv PROVE EachPointItsOwn /\ UserVectorsKept /\ TargetsFit
  OBVIOUS
<1>1. pc # "refused" /\ stmt = NoUpsert /\ up = NoUpsert
  BY DEF QueryInv, Asked
<1>2. DOMAIN up.points = {} /\ DOMAIN stmt.points = {}
  BY <1>1 DEF NoUpsert
<1> QED
  BY <1>1, <1>2 DEF EachPointItsOwn, UserVectorsKept, TargetsFit

\* What an upsert promises holds of the executor as a whole: EachPointItsOwn,
\* UserVectorsKept and TargetsFit.
THEOREM PromisesKept == Spec => [](EachPointItsOwn /\ UserVectorsKept /\ TargetsFit)
<1>1. Init => query = <<>> \/ QueryInv
  BY InitCases DEF OnlyUpsert
<1>2. QueryInv /\ [Next]_allVars => QueryInv'
  BY QueryStep
<1> QED
  BY <1>1, <1>2, QueryPromises, UpsertAsAlone, OwnVectors, UserVectorsStay, TargetsAreFit, PTL DEF Spec
=============================================================================
