----------------------------- MODULE EmbedBatch -----------------------------
(***************************************************************************)
(* One embedding request of a batch of inputs, and what may come back:     *)
(* the HTTP embedder's indexed answer (embedder_http.rs) and the answer of *)
(* an in-process embedder, whose length its caller checks (qql-embed).     *)
(*                                                                         *)
(* A vector is the modality, the model and the input it was made from, so  *)
(* that a vector in the wrong place shows.                                 *)
(***************************************************************************)
EXTENDS Naturals, Sequences

Vec(modality, model, input) == <<modality, model, input>>

\* An item of an HTTP answer: an index, and the vector of the input at that
\* index; an index no input has carries a vector of nothing.
Item(modality, model, inputs, index) ==
  [index |-> index,
   vec |-> IF index < Len(inputs) THEN Vec(modality, model, inputs[index + 1])
                                  ELSE <<modality, model, "nothing">>]

\* An answer whose items carry these indices.
Indexed(modality, model, inputs, ix) ==
  [i \in DOMAIN ix |-> Item(modality, model, inputs, ix[i])]

\* A mutant of Scatter: the items are taken in the order they come.
ScatterAsItComes(items, expected) ==
  IF Len(items) # expected THEN <<>>
  ELSE <<[i \in 1..expected |-> items[i].vec]>>

\* The slots an answer fills, or an error (<<>>): a wrong count, an index out
\* of range, or one that comes twice.
Scatter(items, expected) ==
  IF \/ Len(items) # expected
     \/ \E i \in DOMAIN items : items[i].index >= expected
     \/ \E i, j \in DOMAIN items : i # j /\ items[i].index = items[j].index
  THEN <<>>
  ELSE <<[slot \in 1..expected |->
            items[CHOOSE i \in DOMAIN items : items[i].index + 1 = slot].vec]>>

\* What the HTTP embedder gives for any answer of the server.
FromHttp(modality, model, inputs) ==
  LET n == Len(inputs)
  IN  UNION {{Scatter(Indexed(modality, model, inputs, ix), n) : ix \in [1..k -> 0..n]} :
               k \in (n - 1)..n}

\* What an in-process embedder returns: the vectors in order, or too many of
\* them, or too few.
FromHost(modality, model, inputs) ==
  {[i \in 1..k |-> IF i <= Len(inputs) THEN Vec(modality, model, inputs[i])
                                       ELSE <<modality, model, "nothing">>] :
     k \in (Len(inputs) - 1)..(Len(inputs) + 1)}

\* The caller refuses a batch of another length.
Counted(vecs, expected) == IF Len(vecs) = expected THEN <<vecs>> ELSE <<>>

\* What the caller may get. The HTTP embedder makes sparse vectors itself
\* (BM25) and has no other sparse model.
Answers(http, modality, model, inputs) ==
  {<<>>} \union
  IF ~http THEN {Counted(vecs, Len(inputs)) : vecs \in FromHost(modality, model, inputs)}
  ELSE IF modality # "sparse" THEN FromHttp(modality, model, inputs)
  ELSE IF model = 0 THEN {<<[i \in DOMAIN inputs |-> Vec(modality, model, inputs[i])]>>}
  ELSE {}
=============================================================================
