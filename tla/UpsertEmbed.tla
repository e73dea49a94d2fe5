---------------------------- MODULE UpsertEmbed -----------------------------
(***************************************************************************)
(* How an UPSERT statement gets its vectors: the executor configures its   *)
(* embedding clauses from the schema (executor/dml/upsert.rs), one request *)
(* per clause brings the vectors (qql-embed/resolve.rs), and a collection  *)
(* that is missing is created for the clauses (executor/mod.rs).           *)
(*                                                                         *)
(* A point is [fields, vecs, unnamed]: its texts by field (or NoText),     *)
(* its named vectors, and whether it carries an unnamed one.  A leg is one *)
(* target of a USING clause or one EMBED directive:                        *)
(*   [kind, vec, field, model, directive, bare, sizes]                     *)
(* vec, field optional (<<>> or <<name>>); bare marks the embedding of an  *)
(* upsert without clauses; sizes, that auto-creation looks at the model    *)
(* (the sparse half of HYBRID does not count).                             *)
(***************************************************************************)
EXTENDS EmbedBatch, FiniteSets

CONSTANTS
  Texts,        \* what a field may hold, NoText among them
  VectorNames,  \* names of vectors, Unnamed among them
  Upserts,      \* statements, [points, legs]
  Schemas,      \* what a collection can be
  MaxChanges    \* times another client changes the collection (a bound)

NoText  == ""      \* a field without text
Unnamed == ""      \* the name an unnamed vector has in a schema

Fields == {"text", "title", "image"}
Kinds  == {"dense", "sparse", "multi", "image"}

Optional(S) == {<<>>} \union {<<x>> : x \in S}

\* The vectors of a point are named, or there is one that is not.
Point ==
  {p \in [fields : [Fields -> Texts],
          vecs : UNION {[N -> {<<"user">>}] : N \in SUBSET VectorNames},
          unnamed : BOOLEAN] : p.unnamed => p.vecs = <<>>}

Clause == [kind : Kinds, vec : Optional(VectorNames), field : Optional(Fields),
           model : Nat, directive : BOOLEAN, bare : {FALSE}, sizes : BOOLEAN]

ASSUME UpsertAssumption ==
  /\ IsFiniteSet(VectorNames)
  /\ Upserts \subseteq [points : Seq(Point), legs : Seq(Clause)]
  /\ Schemas \subseteq [dense : SUBSET VectorNames, sparse : SUBSET VectorNames,
                        multi : SUBSET VectorNames]
  /\ \A s \in Schemas : s.multi \subseteq s.dense

VARIABLES
  pc,        \* where the preparation is
  http,      \* the embedder is the HTTP one, not one of the process
  stmt,      \* the statement as it came
  up,        \* the statement as it stands
  at,        \* the leg to embed next
  srv,       \* the collection on the server: <<>> or <<schema>>
  seen,      \* the schema the legs were configured from
  made,      \* the schema created for the statement
  changes    \* changes by other clients so far

vars == <<pc, http, stmt, up, at, srv, seen, made, changes>>

-----------------------------------------------------------------------------
(* Fields and targets. *)

TextFields  == <<"text", "title">>    \* in order of priority; the first stands
ImageFields == <<"image">>            \* for text, body and content

FirstText(fields, order) ==
  LET found == {i \in DOMAIN order : fields[order[i]] # NoText}
  IN  IF found = {} THEN NoText
      ELSE fields[order[CHOOSE i \in found : \A j \in found : i <= j]]

NoVectors(p) == p.vecs = <<>> /\ ~p.unnamed

\* The text of a point a leg embeds.
Source(p, leg) ==
  IF leg.bare /\ ~NoVectors(p) THEN NoText
  ELSE IF leg.field # <<>> THEN p.fields[leg.field[1]]
  ELSE FirstText(p.fields, IF leg.kind = "image" THEN ImageFields ELSE TextFields)

DefaultName == [dense |-> "dense", sparse |-> "sparse", multi |-> "colbert", image |-> "image"]

TargetName(leg) == IF leg.vec # <<>> THEN leg.vec[1] ELSE DefaultName[leg.kind]

\* The members of a finite set, one after the other.
Listed(S) ==
  CHOOSE s \in [1..Cardinality(S) -> S] :
    /\ \A x \in S : \E i \in DOMAIN s : s[i] = x
    /\ \A i, j \in DOMAIN s : s[i] = s[j] => i = j

-----------------------------------------------------------------------------
(* Configuration from the schema. *)

SchemaTargets(names) ==
  IF names.dense = {} /\ names.sparse = {} THEN [names EXCEPT !.dense = {Unnamed}] ELSE names

NeedsImplicit(u) ==
  u.legs = <<>> /\ \E i \in DOMAIN u.points : NoVectors(u.points[i]) /\ u.points[i].fields["text"] # NoText

UsingLeg(kind, name) ==
  [kind |-> kind, vec |-> <<name>>, field |-> <<>>, model |-> 0,
   directive |-> FALSE, bare |-> FALSE, sizes |-> TRUE]

\* What is embedded without clauses: "dense", for the points without vectors.
BareLeg == [UsingLeg("dense", "dense") EXCEPT !.directive = TRUE, !.bare = TRUE]

UsingLegs(kind, S) == [i \in DOMAIN Listed(S) |-> UsingLeg(kind, Listed(S)[i])]

\* The legs for a schema, or none when it does not tell.
InferLegs(names) ==
  LET plain == names.dense \ names.multi
  IN  IF Cardinality(plain) > 1 \/ Cardinality(names.sparse) > 1 THEN <<>>
      ELSE UsingLegs("dense", plain) \o UsingLegs("sparse", names.sparse)
           \o UsingLegs("multi", names.multi)

Available(names, kind) ==
  CASE kind = "sparse" -> names.sparse
    [] kind = "multi" /\ names.multi # {} -> names.multi
    [] OTHER -> names.dense

Resolvable(legs, names) ==
  \A k \in DOMAIN legs :
    LET available == Available(names, legs[k].kind)
    IN  IF legs[k].vec # <<>> THEN legs[k].vec[1] \in available ELSE Cardinality(available) = 1

ResolveLegs(legs, names) ==
  [k \in DOMAIN legs |->
     IF legs[k].vec # <<>> THEN legs[k]
     ELSE [legs[k] EXCEPT !.vec = <<CHOOSE n \in Available(names, legs[k].kind) : TRUE>>]]

\* A mutant of MapUnnamed: the vectors of every point are taken.
MapUnnamedTakes(points, names) ==
  IF Cardinality(names.dense) # 1 \/ Unnamed \in names.dense THEN points
  ELSE [i \in DOMAIN points |->
          [points[i] EXCEPT !.unnamed = FALSE,
             !.vecs = [n \in (IF points[i].unnamed THEN names.dense ELSE {}) |-> <<"user">>]]]

\* Unnamed vectors go to the one dense vector of the collection.
MapUnnamed(points, names) ==
  IF Cardinality(names.dense) # 1 \/ Unnamed \in names.dense THEN points
  ELSE [i \in DOMAIN points |->
          IF points[i].unnamed
          THEN [points[i] EXCEPT !.unnamed = FALSE, !.vecs = [n \in names.dense |-> <<"user">>]]
          ELSE points[i]]

-----------------------------------------------------------------------------
UpsertInit ==
  /\ pc = "configure"
  /\ http \in BOOLEAN
  /\ stmt \in Upserts
  /\ up = stmt
  /\ at = 1
  /\ srv \in {<<>>} \union {<<s>> : s \in Schemas}
  /\ seen = <<>> /\ made = <<>>
  /\ changes = 0

Fails ==
  /\ pc' = "error"
  /\ UNCHANGED <<http, stmt, up, at, srv, seen, made, changes>>

\* No clause, and no text that calls for one. Whatever goes wrong with the
\* schema, an unnamed vector stays unnamed.
ConfigureBare ==
  /\ pc = "configure" /\ stmt.legs = <<>> /\ ~NeedsImplicit(stmt)
  /\ \/ /\ srv # <<>> /\ \E i \in DOMAIN stmt.points : stmt.points[i].unnamed
        /\ up' = [points |-> MapUnnamed(stmt.points, SchemaTargets(srv[1])), legs |-> <<BareLeg>>]
        /\ seen' = srv
     \/ /\ up' = [stmt EXCEPT !.legs = <<BareLeg>>]
        /\ UNCHANGED seen
  /\ pc' = "embed"
  /\ UNCHANGED <<http, stmt, at, srv, made, changes>>

Implicit == stmt.legs # <<>> \/ NeedsImplicit(stmt)

\* The collection is missing: text gets the two default vectors.
ConfigureMissing ==
  /\ pc = "configure" /\ Implicit /\ srv = <<>>
  /\ up' = IF stmt.legs # <<>> THEN stmt
           ELSE [stmt EXCEPT !.legs = <<UsingLeg("dense", "dense"),
                                        [UsingLeg("sparse", "sparse") EXCEPT !.sizes = FALSE]>>]
  /\ pc' = "embed"
  /\ UNCHANGED <<http, stmt, at, srv, seen, made, changes>>

ConfigureKnown ==
  /\ pc = "configure" /\ Implicit /\ srv # <<>>
  /\ LET names == SchemaTargets(srv[1])
         legs  == IF stmt.legs # <<>> THEN stmt.legs ELSE InferLegs(names)
     IN  IF legs = <<>> \/ ~Resolvable(legs, names) THEN Fails
         ELSE /\ up' = [stmt EXCEPT !.legs = ResolveLegs(legs, names)]
              /\ seen' = srv
              /\ pc' = "embed"
              /\ UNCHANGED <<http, stmt, at, srv, made, changes>>

-----------------------------------------------------------------------------
(* Embedding, one leg after the other. *)

Current == up.legs[at]

\* The name is the target of an earlier leg of the statement.
Duplicate == \E k \in 1..(at - 1) : TargetName(up.legs[k]) = TargetName(Current)

Embeds(i, leg) == Source(up.points[i], leg) # NoText

Put(p, name, vec) ==
  [p EXCEPT !.vecs = [n \in DOMAIN p.vecs \union {name} |-> IF n = name THEN vec ELSE p.vecs[n]]]

\* The vectors of a batch go to the points their texts came from.
Fill(points, list, vecs, name) ==
  [i \in DOMAIN points |->
     IF \E k \in DOMAIN list : list[k] = i
     THEN Put(points[i], name, vecs[CHOOSE k \in DOMAIN list : list[k] = i])
     ELSE points[i]]

EmbedLeg ==
  /\ pc = "embed" /\ at <= Len(up.legs)
  /\ LET list  == Listed({i \in DOMAIN up.points : Embeds(i, Current)})
         texts == [k \in DOMAIN list |-> Source(up.points[list[k]], Current)]
     IN  IF \/ Duplicate
            \/ list = <<>> /\ ~Current.directive
         THEN Fails
         ELSE \E answer \in (IF list = <<>> THEN {<<<<>>>>}
                             ELSE Answers(http, Current.kind, Current.model, texts)) :
                IF \/ answer = <<>>
                   \/ list # <<>> /\ TargetName(Current) = Unnamed
                   \/ \E k \in DOMAIN list : up.points[list[k]].unnamed
                THEN Fails
                ELSE /\ up' = [up EXCEPT !.points = Fill(up.points, list, answer[1], TargetName(Current))]
                     /\ at' = at + 1
                     /\ UNCHANGED <<pc, http, stmt, srv, seen, made, changes>>

-----------------------------------------------------------------------------
(* Auto-creation: one dense and one sparse name for all USING legs. *)

Counting(kind) ==
  {k \in DOMAIN up.legs : up.legs[k].kind = kind /\ ~up.legs[k].directive}

Named(kind) == {up.legs[k].vec[1] : k \in {j \in Counting(kind) : up.legs[j].vec # <<>>}}

Sizing ==
  {up.legs[k].model : k \in {j \in Counting("dense") \union Counting("sparse") : up.legs[j].sizes}} \ {0}

AllEmbedded == pc = "embed" /\ at > Len(up.legs)

\* A mutant of Ensure: the names need not agree.
EnsureAnyNames ==
  /\ AllEmbedded
  /\ IF Counting("dense") \union Counting("sparse") = {} THEN pc' = "send"
     ELSE IF Cardinality(Sizing) > 1 THEN pc' = "error"
     ELSE pc' = IF srv = <<>> THEN "create" ELSE "send"
  /\ UNCHANGED <<http, stmt, up, at, srv, seen, made, changes>>

\* Conflicting names or models, or is the collection there?
Ensure ==
  /\ AllEmbedded
  /\ IF Counting("dense") \union Counting("sparse") = {} THEN pc' = "send"
     ELSE IF \/ Cardinality(Named("dense")) > 1
             \/ Cardinality(Named("sparse")) > 1
             \/ Cardinality(Sizing) > 1
     THEN pc' = "error"
     ELSE pc' = IF srv = <<>> THEN "create" ELSE "send"
  /\ UNCHANGED <<http, stmt, up, at, srv, seen, made, changes>>

NameOr(kind) == IF Named(kind) = {} THEN DefaultName[kind] ELSE CHOOSE n \in Named(kind) : TRUE

\* CREATE COLLECTION; somebody else may have been faster.
Create ==
  /\ pc = "create"
  /\ IF srv # <<>> THEN Fails
     ELSE LET One(kind) == IF Counting(kind) = {} THEN {} ELSE {NameOr(kind)}
          IN  /\ srv' = <<[dense |-> One("dense"), sparse |-> One("sparse"), multi |-> {}]>>
              /\ made' = srv'
              /\ pc' = "send"
              /\ UNCHANGED <<http, stmt, up, at, seen, changes>>

\* The collection has a vector of that name and class for every one embedded.
Accepts(schema, p) ==
  \A n \in DOMAIN p.vecs :
    \/ p.vecs[n] = <<"user">>
    \/ n \in (IF p.vecs[n][1] = "sparse" THEN schema.sparse ELSE schema.dense)

\* The upsert itself.
Send ==
  /\ pc = "send"
  /\ pc' = IF srv # <<>> /\ \A i \in DOMAIN up.points : Accepts(srv[1], up.points[i])
           THEN "done" ELSE "refused"
  /\ UNCHANGED <<http, stmt, up, at, srv, seen, made, changes>>

\* A request that fails, a size nobody knows, or a wrong dimension.
Fail ==
  /\ \/ pc = "configure" /\ Implicit
     \/ AllEmbedded /\ Counting("dense") \union Counting("sparse") # {}
     \/ pc = "create"
     \/ pc = "send" /\ seen # <<>>
  /\ Fails

\* Another client creates, drops or replaces the collection.
Change ==
  /\ pc \in {"configure", "embed", "create", "send"} /\ changes < MaxChanges
  /\ srv' \in ({<<>>} \union {<<s>> : s \in Schemas}) \ {srv}
  /\ changes' = changes + 1
  /\ UNCHANGED <<pc, http, stmt, up, at, seen, made>>

UpsertStep ==
  \/ ConfigureBare \/ ConfigureMissing \/ ConfigureKnown
  \/ EmbedLeg \/ Ensure \/ Create \/ Send \/ Fail \/ Change

UpsertSpec == UpsertInit /\ [][UpsertStep]_vars

-----------------------------------------------------------------------------
(* What the preparation of an upsert promises. *)

\* Every leg embedded so far has put under its name, in every point that has a
\* text for it, the vector made from that very text with the leg's own model,
\* whatever order the answer came in and whatever the later legs wrote.
EachPointItsOwn ==
  \A k \in 1..(at - 1) : \A i \in DOMAIN up.points :
    LET leg == up.legs[k] IN
    Source(stmt.points[i], leg) # NoText =>
       /\ TargetName(leg) \in DOMAIN up.points[i].vecs
       /\ up.points[i].vecs[TargetName(leg)]
            = Vec(leg.kind, leg.model, Source(stmt.points[i], leg))

\* No vector of the user's is lost: it stays under its name unless a leg has that
\* target, and an unnamed one stays unnamed or gets a name.
UserVectorsKept ==
  \A i \in DOMAIN stmt.points :
    LET was == stmt.points[i]
        now == up.points[i]
    IN  /\ \A n \in DOMAIN was.vecs :
             /\ n \in DOMAIN now.vecs
             /\ \/ now.vecs[n] = was.vecs[n]
                \/ \E k \in 1..(at - 1) : TargetName(up.legs[k]) = n
        /\ was.unnamed => now.unnamed \/ \E n \in DOMAIN now.vecs : now.vecs[n] = <<"user">>

Promised == IF made # <<>> THEN made ELSE seen

\* A leg auto-creation makes room for.
Covered(leg) == ~leg.directive /\ leg.kind \in {"dense", "sparse"} /\ leg.vec # <<>>

\* The server never refuses the vectors of a statement with clauses (or with text
\* that implies them) for their names while the collection is still the one the
\* targets were resolved from, or the one created for clauses it covers.
TargetsFit ==
  pc = "refused" =>
    \/ srv # Promised
    \/ Promised = <<>>
    \/ \E k \in DOMAIN up.legs : up.legs[k].bare
    \/ made # <<>> /\ \E k \in DOMAIN up.legs : ~Covered(up.legs[k])
=============================================================================
