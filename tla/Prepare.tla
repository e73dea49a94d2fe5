------------------------------ MODULE Prepare -------------------------------
(***************************************************************************)
(* prepare_statement of the executor (executor/mod.rs): a QUERY or an      *)
(* UPSERT on its way to the backend.  An upsert takes the steps of         *)
(* UpsertEmbed; a query is resolved against the names of the collection,   *)
(* its inputs are collected, one request at a time brings their vectors,   *)
(* and they are put into the tree (QueryEmbed).                            *)
(***************************************************************************)
EXTENDS UpsertEmbed, QueryEmbed

CONSTANT Queries   \* query statements

\* Qdrant names a sparse vector, and not as a dense one.
ASSUME QueryAssumption ==
  /\ \A t \in Queries : IsStatement(t)
  /\ \A s \in Schemas : NoName \notin s.sparse /\ s.dense \intersect s.sparse = {}
  /\ {NoName, "dense", "sparse", "colbert", "image"} \subseteq VectorNames
  /\ VectorNames \subseteq STRING

VARIABLES
  query,    \* <<>> for an upsert, or <<the query as it came>>
  tree,     \* the query with its targets resolved
  jobs,     \* the inputs to embed, in the order of the walk
  outs,     \* their vectors, <<>> until they come
  void,     \* those of them that are empty
  result    \* <<the query with its vectors>>

qvars == <<query, tree, jobs, outs, void, result>>
allVars == <<vars, qvars>>

NoUpsert == [points |-> <<>>, legs |-> <<>>]

Init ==
  \/ UpsertInit /\ query = <<>> /\ tree = <<>> /\ jobs = <<>> /\ outs = <<>> /\ void = {}
     /\ result = <<>>
  \/ /\ query \in {<<q>> : q \in Queries}
     /\ tree = query[1] /\ jobs = <<>> /\ outs = <<>> /\ void = {} /\ result = <<>>
     /\ pc = "resolve"
     /\ http \in BOOLEAN
     /\ srv \in {<<>>} \union {<<s>> : s \in Schemas}
     /\ stmt = NoUpsert /\ up = NoUpsert /\ at = 1
     /\ seen = <<>> /\ made = <<>> /\ changes = 0

Moves(to) == pc' = to /\ UNCHANGED <<http, stmt, up, at, srv, made, changes>>

\* configure_query_vectors: the schema is fetched only when a target is open.
ResolveQuery ==
  /\ pc = "resolve"
  /\ LET resolved == IF srv = <<>> /\ NeedsKind(tree) THEN Error
                     ELSE IF NeedsKind(tree) THEN Resolve(tree, srv[1]) ELSE Ok(tree)
     IN  IF resolved = Error THEN Moves("error") /\ UNCHANGED <<seen, tree>>
         ELSE /\ tree' = resolved[1]
              /\ seen' = IF NeedsKind(tree) THEN srv ELSE seen
              /\ Moves("collect")
  /\ UNCHANGED <<query, jobs, outs, void, result>>

\* A mutant of Collect: no room is made for the vectors.
CollectNoRoom ==
  /\ pc = "collect"
  /\ LET found == QueryJobs(tree)
     IN  IF found = Error THEN Moves("error") /\ UNCHANGED <<jobs, outs>>
         ELSE jobs' = found[1] /\ outs' = <<>> /\ Moves("request")
  /\ UNCHANGED <<seen, query, tree, void, result>>

Collect ==
  /\ pc = "collect"
  /\ LET found == QueryJobs(tree)
     IN  IF found = Error THEN Moves("error") /\ UNCHANGED <<jobs, outs>>
         ELSE /\ jobs' = found[1]
              /\ outs' = [i \in DOMAIN found[1] |-> <<>>]
              /\ Moves("request")
  /\ UNCHANGED <<seen, query, tree, void, result>>

\* What an embedder may make empty: the HTTP one checks the size of what it gets
\* (embed_batch_with_model), one of the process is not asked.
MayBeEmpty(vecs) == IF http THEN {} ELSE ToSet(vecs)

\* One request: all inputs of a modality and a model.
Request ==
  /\ pc = "request" /\ <<>> \in {outs[i] : i \in DOMAIN outs}
  /\ LET request == NextRequest(jobs, outs)
         inputs  == [k \in DOMAIN request.positions |-> jobs[request.positions[k]].input]
     IN  \E answer \in Answers(http, request.modality, request.model, inputs) :
           IF answer = <<>> THEN Moves("error") /\ UNCHANGED <<outs, void>>
           ELSE \E none \in SUBSET MayBeEmpty(answer[1]) :
                  /\ outs' = Spread(request, answer[1], outs)
                  /\ void' = void \union none
                  /\ Moves("request")
  /\ UNCHANGED <<seen, query, tree, jobs, result>>

PutVectors ==
  /\ pc = "request" /\ <<>> \notin {outs[i] : i \in DOMAIN outs}
  /\ result' = Apply(tree, jobs, outs, void)
  /\ Moves(IF result' = Error THEN "error" ELSE "done")
  /\ UNCHANGED <<seen, query, tree, jobs, outs, void>>

Next ==
  \/ UpsertStep /\ UNCHANGED qvars
  \/ ResolveQuery \/ Collect \/ Request \/ PutVectors

Spec == Init /\ [][Next]_allVars

-----------------------------------------------------------------------------
TypeOK ==
  /\ pc \in {"configure", "embed", "create", "send", "done", "refused", "error",
             "resolve", "collect", "request"}
  /\ at \in 1..(Len(up.legs) + 1)
  /\ DOMAIN up.points = DOMAIN stmt.points
  /\ \A i \in DOMAIN up.points : DOMAIN up.points[i].vecs \subseteq VectorNames
  /\ \A s \in {srv, seen, made} \ {<<>>} :
       s = <<s[1]>> /\ s[1] \in [dense : SUBSET VectorNames, sparse : SUBSET VectorNames,
                                multi : SUBSET VectorNames]
  /\ DOMAIN outs = DOMAIN jobs

\* A query goes out with every text and image of its tree replaced by the vector
\* made from that very input, with its own model and for the target of its own
\* expression: the walk that collects and the walk that applies agree, and neither
\* the grouping by model nor the order of an answer moves a vector.  The cursor of
\* resolve_query.rs would turn a drift of the two walks into an error, not a wrong
\* query; there is none: a query whose requests have all been answered is given up
\* exactly when one of its vectors is empty, sparse ones and those of HYBRID apart.
EmbedsTheQuery ==
  /\ result # <<>> => result[1] = Embedded(tree) /\ SparedAll(tree, void)
  /\ pc = "error" /\ DOMAIN outs # {} /\ <<>> \notin {outs[i] : i \in DOMAIN outs}
     => ~SparedAll(tree, void)

\* Skipping the schema walk loses nothing: what goes out is what the walk would have
\* made of the query, unless it would have refused it (query_needs_kind_resolution
\* against configure_query).
SkipIsSafe ==
  query # <<>> /\ pc = "done" /\ srv # <<>>
  => Configure(query[1], Names(srv[1])) \in {Error, Ok(tree)}

\* The classes of vectors a query of the tree sends to its target: modalities of the
\* inputs it had embedded.
Classes(asked, sent) ==
  {sent.inputs[k].value[1] : k \in {j \in DOMAIN asked.inputs : asked.inputs[j].type \in {"text", "image"}}}

\* Outside HYBRID, what is embedded for a target the schema has is what the target
\* takes: sparse for a sparse one and for no other, rows for a named multivector, and
\* rows for another dense one only when the query says AS MULTI; an omitted target
\* stands for the unnamed dense vector, and only where there is one.  A HYBRID's
\* names are a dense and a sparse one the schema has; nothing is said of its dense
\* vector, which is one plain vector also where that name takes rows (resolve_using,
\* resolve_required_vector, the hybrid arm of apply_expr_embeddings).
KindsFit ==
  result # <<>> /\ seen # <<>> =>
    LET names == Names(seen[1])
    IN  \A i \in DOMAIN tree :
          LET e == tree[i]
              classes == Classes(e, result[1][i])
              AsMulti == query[1][i].using # <<>> /\ query[1][i].using[1].multi
          IN  /\ e.op \in {"points", "rerank"} =>
                   IF e.using = <<>>
                   THEN NoName \in names.dense /\ classes \subseteq {"dense", "image"}
                   ELSE LET name == e.using[1].name
                        IN  /\ name \in names.sparse => classes \subseteq {"sparse"}
                            /\ name \in names.dense => "sparse" \notin classes
                            /\ name \in names.dense \intersect names.multi => classes \subseteq {"multi"}
                            /\ name \in names.dense \ names.multi /\ "multi" \in classes => AsMulti
              /\ e.op = "hybrid" => /\ e.names[1] # <<>> /\ e.names[1][1] \in names.dense
                                    /\ e.names[2] # <<>> /\ e.names[2][1] \in names.sparse
=============================================================================
