----------------------------- MODULE QueryEmbed -----------------------------
(***************************************************************************)
(* How a QUERY statement gets its vectors (qql-embed): the targets it      *)
(* leaves open are filled from the names the collection has (topology.rs), *)
(* then one walk collects the inputs to embed, one request is sent per     *)
(* modality and model, and a second walk puts the vectors into the tree in *)
(* the order of the first (resolve_query.rs).                              *)
(*                                                                         *)
(* A statement is the table of its queries, itself first; a query is       *)
(*   [op, inputs, using, model, names, ctes, prefetch, legs]               *)
(* where ctes and prefetch are the numbers of the queries below it (0 for  *)
(* a prefetch that is the name of a CTE), and op is                        *)
(*   "points"   nearest, recommend, context, discover, feedback: inputs in *)
(*              the order of the walk (positive before negative)           *)
(*   "rerank"   one input, embedded with a model of its own                *)
(*   "hybrid"   one text embedded twice; names = <<dense, sparse>>; it     *)
(*              becomes a fusion of two legs                               *)
(*   "fusion"   fusion, formula, cross rerank: prefetches only             *)
(*   "scroll"   points, order by, sample: nothing to embed.                *)
(* Optional parts (using, a model, a name) are <<>> or <<value>>, and so   *)
(* is every result below: <<>> is an error.                                *)
(***************************************************************************)
EXTENDS EmbedBatch, FiniteSets, SequencesExt

CONSTANT MaxDepth     \* nesting the walks descend (MAX_NESTING_DEPTH)

Error == <<>>
Ok(x) == <<x>>

NoName == ""     \* the name of the vector a collection has without names

Ops == {"points", "rerank", "hybrid", "fusion", "scroll"}

VectorTarget == [name : STRING, kind : {"none", "dense", "sparse"}, multi : BOOLEAN]

Input ==
  [type : {"text", "image"}, text : STRING, model : Seq(Nat), options : BOOLEAN, unbound : BOOLEAN]
  \union [type : {"vector"}, value : {"dense", "sparse"} \X {"user"}]
  \union [type : {"point"}]   \* a reference, and what else the walks leave as it is

Query ==
  [op : Ops, inputs : Seq(Input), using : Seq(VectorTarget), model : Seq(Nat),
   names : Seq(Seq(STRING)), ctes : Seq(Nat \ {0}), prefetch : Seq(Nat), legs : {<<>>}]

\* The queries below a query, and the names of CTEs among them.
Below(q) == q.ctes \o q.prefetch

\* The queries of a statement are a tree: every one but the first is in one place
\* below an earlier one.
IsStatement(t) ==
  /\ t \in Seq(Query) /\ t # <<>>
  /\ \A i \in DOMAIN t :
       /\ Len(t[i].using) <= 1 /\ Len(t[i].names) = 2
       /\ t[i].op = "hybrid" => Len(t[i].inputs) = 1 /\ t[i].inputs[1].type = "text"
       /\ t[i].op = "rerank" => Len(t[i].inputs) = 1 /\ Len(t[i].model) = 1
       /\ t[i].op \in {"hybrid", "scroll"} => t[i].prefetch = <<>>
       /\ \A k \in DOMAIN Below(t[i]) : Below(t[i])[k] \in {0} \union (i + 1)..Len(t)
  /\ \A j \in 2..Len(t) : \E i \in DOMAIN t : \E k \in DOMAIN Below(t[i]) : Below(t[i])[k] = j
  /\ \A h, i \in DOMAIN t : \A k \in DOMAIN Below(t[h]), l \in DOMAIN Below(t[i]) :
       Below(t[h])[k] = Below(t[i])[l] /\ Below(t[h])[k] # 0 => h = i /\ k = l

\* How deep the queries are nested.
Depth(t) ==
  LET depth[i \in DOMAIN t] ==
        IF i = 1 THEN 0 ELSE depth[CHOOSE h \in 1..(i - 1) : i \in ToSet(Below(t[h]))] + 1
  IN  depth

TooDeep(t) == \E i \in DOMAIN t : Depth(t)[i] > MaxDepth

Modalities == <<"dense", "sparse", "multi", "image">>

\* All of them, or an error when one is.
AllOk(results) ==
  IF \E i \in DOMAIN results : results[i] = Error THEN Error
  ELSE Ok([i \in DOMAIN results |-> results[i][1]])

Concat(results) ==
  IF AllOk(results) = Error THEN Error ELSE Ok(FlattenSeq(AllOk(results)[1]))

-----------------------------------------------------------------------------
(* Targets from the names of the collection.  names is [dense, sparse,     *)
(* multi], multi a subset of dense; a collection with neither has the      *)
(* unnamed dense vector.                                                   *)

Names(names) ==
  IF names.dense = {} /\ names.sparse = {} THEN [names EXCEPT !.dense = {NoName}] ELSE names

KindOf(names, name) ==
  IF name \in names.dense THEN "dense"
  ELSE IF name \in names.sparse THEN "sparse" ELSE "none"

\* A mutant of TargetNeedsKind: a target with a kind is settled.
TargetIsOpen(using) == using = <<>> \/ using[1].kind = "none"

\* A dense target may still turn out to be a multivector.
TargetNeedsKind(using) ==
  using = <<>> \/ using[1].kind = "none" \/ (using[1].kind = "dense" /\ ~using[1].multi)

NeedsKind(t) ==
  \E i \in DOMAIN t :
    \/ t[i].op \in {"points", "rerank"} /\ TargetNeedsKind(t[i].using)
    \/ t[i].op = "hybrid" /\ <<>> \in {t[i].names[1], t[i].names[2]}

InputKind(input) ==
  IF input.type # "vector" THEN "none"
  ELSE IF input.value[1] = "sparse" THEN "sparse" ELSE "dense"

\* The kind the inputs that have one agree on.
MergeKinds(inputs) ==
  LET kinds == {InputKind(inputs[i]) : i \in DOMAIN inputs} \ {"none"}
  IN  IF Cardinality(kinds) > 1 THEN Error
      ELSE Ok(IF kinds = {} THEN "none" ELSE CHOOSE k \in kinds : TRUE)

\* The one name of that kind, or the one name there is.
Select(names, kind) ==
  LET Of(k) == IF k = "dense" THEN names.dense ELSE names.sparse
      only == {k \in {"dense", "sparse"} : Cardinality(Of(k)) = 1}
      all == Cardinality(names.dense) + Cardinality(names.sparse)
      fits == IF kind = "none" THEN {k \in only : all = 1} ELSE only \intersect {kind}
  IN  IF fits = {} THEN Error
      ELSE LET k == CHOOSE k \in fits : TRUE
           IN Ok([name |-> CHOOSE n \in Of(k) : TRUE, kind |-> k])

\* A mutant of ResolveNamed: the schema does not make a target multi.
ResolveNamedPlain(target, required, names) ==
  LET actual == KindOf(names, target.name)
  IN  IF actual = "none"
      THEN IF target.kind = "none" THEN Error ELSE Ok(target)
      ELSE IF \/ target.kind \notin {"none", actual}
              \/ required \notin {"none", actual}
              \/ target.multi /\ actual # "dense"
           THEN Error
           ELSE Ok([target EXCEPT !.kind = actual])

\* A target of the query: checked against the schema, and filled from it. A name
\* the schema does not have stays as it is when it carries a kind.
ResolveNamed(target, required, names) ==
  LET actual == KindOf(names, target.name)
      multi  == target.multi \/ target.name \in names.multi
  IN  IF actual = "none"
      THEN IF target.kind = "none" THEN Error ELSE Ok(target)
      ELSE IF \/ target.kind \notin {"none", actual}
              \/ required \notin {"none", actual}
              \/ multi /\ actual # "dense"
           THEN Error
           ELSE Ok([target EXCEPT !.kind = actual, !.multi = multi])

ResolveUsing(using, required, names) ==
  IF using # <<>>
  THEN LET r == ResolveNamed(using[1], required, names)
       IN  IF r = Error THEN Error ELSE Ok(r)
  ELSE LET s == Select(names, required)
       IN  IF s = Error THEN Error
           ELSE IF s[1].name = NoName THEN Ok(<<>>)
           ELSE Ok(<<[name |-> s[1].name, kind |-> s[1].kind,
                      multi |-> s[1].name \in names.multi]>>)

\* A name of HYBRID.
RequiredVector(name, available) ==
  IF name # <<>>
  THEN IF name[1] \in available THEN Ok(name) ELSE Error
  ELSE IF Cardinality(available) # 1 \/ NoName \in available THEN Error
  ELSE Ok(<<CHOOSE n \in available : TRUE>>)

ConfigureExpr(e, names) ==
  LET required == CASE e.op = "points" -> MergeKinds(e.inputs)
                    [] e.op = "rerank" -> Ok("dense")
                    [] OTHER -> Ok("none")
      using    == IF required = Error THEN Error
                  ELSE IF e.op \in {"points", "rerank"}
                       THEN ResolveUsing(e.using, required[1], names)
                       ELSE Ok(e.using)
      vectors  == IF e.op = "hybrid"
                  THEN AllOk(<<RequiredVector(e.names[1], names.dense),
                               RequiredVector(e.names[2], names.sparse)>>)
                  ELSE Ok(e.names)
  IN  IF using = Error \/ vectors = Error THEN Error
      ELSE Ok([e EXCEPT !.using = using[1], !.names = vectors[1]])

Configure(t, names) ==
  IF TooDeep(t) THEN Error ELSE AllOk([i \in DOMAIN t |-> ConfigureExpr(t[i], names)])

\* What the executor does with a query: the walk is skipped when nothing is open.
Resolve(t, names) ==
  IF NeedsKind(t) THEN Configure(t, Names(names)) ELSE Ok(t)

-----------------------------------------------------------------------------
(* The first walk: the list of jobs. *)

Job(modality, model, input) == [modality |-> modality, model |-> model, input |-> input]

\* The target to embed for, or an error when its kind is still open.
Target(using) ==
  IF using = <<>> THEN Ok([kind |-> "dense", multi |-> FALSE])
  ELSE IF using[1].kind = "none" THEN Error
  ELSE Ok([kind |-> using[1].kind, multi |-> using[1].multi])

TextModality(target) ==
  IF target.kind = "sparse" THEN "sparse" ELSE IF target.multi THEN "multi" ELSE "dense"

ImageFits(target) == target.kind # "sparse" /\ ~target.multi

ModelOr(model, default) == IF model = <<>> THEN default ELSE model[1]

\* The model inputs without one are embedded with; 0 is the default model.
DefaultModel(e) == IF e.op = "rerank" THEN e.model[1] ELSE 0

\* Unbound text and server-side options cannot be embedded here.
InputJobs(input, target, default) ==
  IF input.type \notin {"text", "image"} THEN Ok(<<>>)
  ELSE IF \/ input.options
          \/ input.type = "text" /\ input.unbound
          \/ input.type = "image" /\ ~ImageFits(target)
  THEN Error
  ELSE Ok(<<Job(IF input.type = "text" THEN TextModality(target) ELSE "image",
                ModelOr(input.model, default), input.text)>>)

ExprJobs(e) ==
  CASE e.op \in {"points", "rerank"} ->
         IF Target(e.using) = Error THEN Error
         ELSE LET target == Target(e.using)[1]
              IN  IF e.op = "rerank" /\ target.kind = "sparse" THEN Error
                  ELSE Concat([i \in DOMAIN e.inputs |->
                                 InputJobs(e.inputs[i], target, DefaultModel(e))])
    [] e.op = "hybrid" ->
         IF e.inputs[1].unbound THEN Error
         ELSE LET m == ModelOr(e.model, 0)
              IN  Ok(<<Job("dense", m, e.inputs[1].text), Job("sparse", m, e.inputs[1].text)>>)
    [] OTHER -> Ok(<<>>)

\* The queries in the order of a walk from the first: visits[i] is what a walk of
\* query i goes through, i for its own expression, 0 for the name of a CTE.
InOrder(visits) ==
  LET order[i \in DOMAIN visits] ==
        FlattenSeq([k \in DOMAIN visits[i] |->
                      IF visits[i][k] = i THEN <<i>>
                      ELSE IF visits[i][k] = 0 THEN <<>> ELSE order[visits[i][k]]])
  IN  order[1]

\* A mutant of Collected: the expression is walked before the CTEs.
CollectedExprFirst(t) == InOrder([i \in DOMAIN t |-> <<i>> \o t[i].ctes \o t[i].prefetch])

\* This walk: the CTEs of a query, its expression, its prefetches.
Collected(t) == InOrder([i \in DOMAIN t |-> t[i].ctes \o <<i>> \o t[i].prefetch])

QueryJobs(t) ==
  IF TooDeep(t) THEN Error
  ELSE Concat([n \in DOMAIN Collected(t) |-> ExprJobs(t[Collected(t)[n]])])

-----------------------------------------------------------------------------
(* The requests: one per modality and model, in that order. *)

Positions(jobs, modality, model) ==
  FlattenSeq([i \in DOMAIN jobs |->
                IF jobs[i].modality = modality /\ jobs[i].model = model THEN <<i>> ELSE <<>>])

\* The next request of those that have vectors to bring: outs is the list of
\* vectors by job, <<>> where none has come.
NextRequest(jobs, outs) ==
  LET open == {i \in DOMAIN jobs : outs[i] = <<>>}
      rank(i) == CHOOSE k \in DOMAIN Modalities : Modalities[k] = jobs[i].modality
      first == CHOOSE i \in open : \A j \in open :
                 \/ rank(i) < rank(j)
                 \/ rank(i) = rank(j) /\ jobs[i].model <= jobs[j].model
  IN  [modality |-> jobs[first].modality, model |-> jobs[first].model,
       positions |-> Positions(jobs, jobs[first].modality, jobs[first].model)]

\* The vectors of an answer go to the jobs its inputs came from.
Spread(request, vecs, outs) ==
  [i \in DOMAIN outs |->
     IF \E k \in DOMAIN vecs : request.positions[k] = i
     THEN <<vecs[CHOOSE k \in DOMAIN vecs : request.positions[k] = i]>>
     ELSE outs[i]]

-----------------------------------------------------------------------------
(* The second walk.  It carries a cursor into the jobs; a step of it is    *)
(* [ok, at, val]: whether it went well, the cursor after it, and what it   *)
(* has built.                                                              *)

Step(ok, at, val) == [ok |-> ok, at |-> at, val |-> val]

\* The vector of the next job, which must be of the modality the walk expects.
Take(modality, jobs, outs, at) ==
  IF at > Len(jobs) \/ jobs[at].modality # modality
  THEN Step(FALSE, at, <<>>) ELSE Step(TRUE, at + 1, outs[at][1])

VectorInput(vec) == [type |-> "vector", value |-> vec]

\* An empty vector is refused, unless it is sparse. void are the empty ones.
ApplyInput(input, target, jobs, outs, void, at) ==
  IF input.type \notin {"text", "image"} THEN Step(TRUE, at, input)
  ELSE IF input.type = "image" /\ ~ImageFits(target) THEN Step(FALSE, at, input)
  ELSE LET modality == IF input.type = "text" THEN TextModality(target) ELSE "image"
           r == Take(modality, jobs, outs, at)
           kept == modality = "sparse" \/ r.val \notin void
       IN  Step(r.ok /\ kept, r.at, VectorInput(r.val))

\* Every input is replaced where it stands.
ApplyInputs(e, target, jobs, outs, void, at) ==
  LET walk[n \in 0..Len(e.inputs)] ==
        IF n = 0 THEN Step(TRUE, at, e.inputs)
        ELSE IF ~walk[n - 1].ok THEN walk[n - 1]
        ELSE LET r == ApplyInput(e.inputs[n], target, jobs, outs, void, walk[n - 1].at)
             IN  Step(r.ok, r.at, [walk[n - 1].val EXCEPT ![n] = r.val])
  IN  walk[Len(e.inputs)]

\* The two queries HYBRID becomes.
Leg(vec, name, kind) ==
  [op |-> "points", inputs |-> <<VectorInput(vec)>>,
   using |-> <<[name |-> name, kind |-> kind, multi |-> FALSE]>>]

HybridOf(e, dense, sparse) ==
  LET Name(opt, default) == IF opt = <<>> THEN default ELSE opt[1]
  IN  [e EXCEPT !.op = "fusion", !.inputs = <<>>, !.model = <<>>,
         !.names = <<<<>>, <<>>>>,
         !.legs = <<Leg(dense, Name(e.names[1], "dense"), "dense"),
                    Leg(sparse, Name(e.names[2], "sparse"), "sparse")>>]

ApplyExpr(e, jobs, outs, void, at) ==
  CASE e.op \in {"points", "rerank"} ->
         IF Target(e.using) = Error THEN Step(FALSE, at, e)
         ELSE LET r == ApplyInputs(e, Target(e.using)[1], jobs, outs, void, at)
              IN  Step(r.ok, r.at, [e EXCEPT !.inputs = r.val])
    [] e.op = "hybrid" ->
         \* HYBRID takes a dense vector without looking at it.
         LET dense  == Take("dense", jobs, outs, at)
             sparse == Take("sparse", jobs, outs, dense.at)
         IN  IF dense.ok /\ sparse.ok
             THEN Step(TRUE, sparse.at, HybridOf(e, dense.val, sparse.val))
             ELSE Step(FALSE, at, e)
    [] OTHER -> Step(TRUE, at, e)

\* The order of this walk.
Applied(t) == InOrder([i \in DOMAIN t |-> t[i].ctes \o <<i>> \o t[i].prefetch])

ApplyQuery(t, jobs, outs, void) ==
  LET order == Applied(t)
      walk[n \in 0..Len(order)] ==
        IF n = 0 THEN Step(TRUE, 1, t)
        ELSE IF ~walk[n - 1].ok THEN walk[n - 1]
        ELSE LET i == order[n]
                 r == ApplyExpr(walk[n - 1].val[i], jobs, outs, void, walk[n - 1].at)
             IN  Step(r.ok, r.at, [walk[n - 1].val EXCEPT ![i] = r.val])
  IN  walk[Len(order)]

\* The query with its vectors, or an error: a step that failed, or jobs left over.
Apply(t, jobs, outs, void) ==
  LET r == ApplyQuery(t, jobs, outs, void)
  IN  IF r.ok /\ r.at = Len(jobs) + 1 THEN Ok(r.val) ELSE Error

-----------------------------------------------------------------------------
(* What the pipeline promises, stated without jobs and cursors: every      *)
(* input of the tree is replaced by the vector made from that very input,  *)
(* with its own model, for the target of its own expression.               *)

OwnVector(input, target, default) ==
  IF input.type \notin {"text", "image"} THEN input
  ELSE VectorInput(Vec(IF input.type = "text" THEN TextModality(target) ELSE "image",
                       ModelOr(input.model, default), input.text))

EmbeddedExpr(e) ==
  LET own(input) == OwnVector(input, Target(e.using)[1], DefaultModel(e))
      text == e.inputs[1].text
      m == ModelOr(e.model, 0)
  IN  CASE e.op = "hybrid" -> HybridOf(e, Vec("dense", m, text), Vec("sparse", m, text))
        [] e.op \in {"points", "rerank"} ->
             [e EXCEPT !.inputs = [i \in DOMAIN e.inputs |-> own(e.inputs[i])]]
        [] OTHER -> e

Embedded(t) == [i \in DOMAIN t |-> EmbeddedExpr(t[i])]

\* An input whose own vector is not refused for being empty,
Spared(input, target, default, void) ==
  \/ input.type \notin {"text", "image"}
  \/ input.type = "text" /\ TextModality(target) = "sparse"
  \/ OwnVector(input, target, default).value \notin void

\* a query of which none is, and a statement of such queries.
SparedExpr(e, void) ==
  e.op \in {"points", "rerank"} =>
    \A i \in DOMAIN e.inputs : Spared(e.inputs[i], Target(e.using)[1], DefaultModel(e), void)

SparedAll(t, void) == \A i \in DOMAIN t : SparedExpr(t[i], void)
=============================================================================
