----------------------------- MODULE MCPrepare ------------------------------
(* Queries and upserts of every shape, on collections of every topology. *)
EXTENDS Prepare

MCTexts == {"", "x", "y"}
MCNames == {"", "d", "e", "m", "s", "dense", "sparse", "colbert", "image"}

Schema(dense, sparse, multi) == [dense |-> dense, sparse |-> sparse, multi |-> multi]
MCSchemas ==
  {Schema({}, {}, {}), Schema({"d"}, {}, {}), Schema({"d"}, {"s"}, {}),
   Schema({"d", "m"}, {"s"}, {"m"}), Schema({"m"}, {"s"}, {"m"}), Schema({"d", "e"}, {"s"}, {})}

-----------------------------------------------------------------------------
P(text, title, image, vecs, unnamed) ==
  [fields |-> [text |-> text, title |-> title, image |-> image],
   vecs |-> [n \in vecs |-> <<"user">>], unnamed |-> unnamed]
L(kind, vec, field, model, directive) ==
  [kind |-> kind, vec |-> vec, field |-> field, model |-> model,
   directive |-> directive, bare |-> FALSE, sizes |-> TRUE]
U(points, legs) == [points |-> points, legs |-> legs]
Using(kind, vec, field, model) == L(kind, vec, field, model, FALSE)
Embed(kind, field, vec, model) == L(kind, <<vec>>, <<field>>, model, TRUE)

Plain == P("x", "y", "", {}, FALSE)
Other == P("y", "", "x", {}, FALSE)
Title == P("", "x", "y", {}, FALSE)
Owned == P("y", "", "", {"d"}, FALSE)
Unnam == P("", "", "", {}, TRUE)

MCUpserts ==
  {U(<<Plain, Title, Owned>>, <<>>),
   U(<<Title, Unnam, Owned>>, <<>>),
   U(<<Owned, Unnam>>, <<>>),
   U(<<Plain, Other>>, <<Using("dense", <<>>, <<>>, 0),
                         [Using("sparse", <<>>, <<>>, 1) EXCEPT !.sizes = FALSE]>>),
   U(<<Title, Plain, Other>>, <<Using("dense", <<"d">>, <<>>, 1), Using("sparse", <<"s">>, <<>>, 0)>>),
   U(<<Plain, Title>>, <<Using("dense", <<"d">>, <<>>, 0), Using("dense", <<>>, <<"title">>, 0)>>),
   U(<<Plain, Title>>, <<Using("dense", <<"d">>, <<>>, 0), Using("dense", <<"e">>, <<"title">>, 0)>>),
   U(<<Plain, Title>>, <<Using("dense", <<"d">>, <<>>, 1), Using("sparse", <<"s">>, <<>>, 2)>>),
   U(<<Plain, Title>>, <<Using("dense", <<"d">>, <<>>, 0), Embed("sparse", "title", "s", 0)>>),
   U(<<Plain, Title>>, <<Using("dense", <<"d">>, <<>>, 0), Embed("dense", "title", "d", 0)>>),
   U(<<Unnam, Plain>>, <<Using("dense", <<"d">>, <<>>, 0)>>),
   U(<<Plain, Unnam>>, <<Using("image", <<"d">>, <<>>, 0)>>),
   U(<<Plain, Owned>>, <<Using("multi", <<>>, <<>>, 0), Embed("image", "image", "d", 2)>>)}

-----------------------------------------------------------------------------
Text(text, model) ==
  [type |-> "text", text |-> text, model |-> model, options |-> FALSE, unbound |-> FALSE]
Image(text) == [Text(text, <<>>) EXCEPT !.type = "image"]
Given(kind) == VectorInput(<<kind, "user">>)
T(name, kind, multi) == <<[name |-> name, kind |-> kind, multi |-> multi]>>
E(op, inputs, using, model, names, ctes, prefetch) ==
  [op |-> op, inputs |-> inputs, using |-> using, model |-> model, names |-> names,
   ctes |-> ctes, prefetch |-> prefetch, legs |-> <<>>]
None2 == <<<<>>, <<>>>>
Ask(inputs, using) == E("points", inputs, using, <<>>, None2, <<>>, <<>>)
One(text, using) == Ask(<<Text(text, <<>>)>>, using)
Hybrid(text, names) == E("hybrid", <<Text(text, <<>>)>>, <<>>, <<>>, names, <<>>, <<>>)
Fuse(ctes, prefetch) == E("fusion", <<>>, <<>>, <<>>, None2, ctes, prefetch)

\* Statements of one query.
Flat ==
  {One("x", <<>>), One("x", T("m", "dense", FALSE)), One("x", T("z", "dense", FALSE)),
   Ask(<<[type |-> "point"], Text("x", <<>>)>>, <<>>),
   One("x", T("s", "sparse", FALSE)), One("x", T("m", "dense", TRUE)), One("x", T("d", "none", FALSE)),
   Ask(<<Text("x", <<>>), Given("sparse")>>, <<>>),
   Ask(<<Given("dense"), Given("sparse")>>, <<>>),
   Ask(<<Image("x"), Text("y", <<1>>)>>, T("d", "none", FALSE)),
   Ask(<<Image("x")>>, <<>>),
   Ask(<<[Text("x", <<>>) EXCEPT !.unbound = TRUE]>>, <<>>),
   Ask(<<[Text("x", <<>>) EXCEPT !.options = TRUE]>>, <<>>),
   E("scroll", <<>>, <<>>, <<>>, None2, <<>>, <<>>),
   Hybrid("x", None2), Hybrid("x", <<<<"d">>, <<"s">>>>)}

MCQueries == {<<q>> : q \in Flat} \union {
   \* CTE and prefetches, two models and three modalities
   << [Ask(<<Text("x", <<1>>), Text("z", <<>>), Text("y", <<1>>)>>, T("d", "none", FALSE))
         EXCEPT !.ctes = <<2>>, !.prefetch = <<0, 3>>],
      One("y", T("s", "none", FALSE)), One("w", T("m", "none", FALSE)) >>,
   << Fuse(<<4>>, <<2, 0, 3>>), Hybrid("x", <<<<"d">>, <<"s">>>>),
      One("x", T("s", "sparse", FALSE)), Hybrid("y", <<<<"d">>, <<>>>>) >>,
   \* rows wanted of a target that may be plain
   << Fuse(<<>>, <<2, 3>>), One("x", T("d", "dense", TRUE)), One("y", T("m", "none", FALSE)) >>,
   \* nothing open but the CTE
   << Fuse(<<2>>, <<3>>), One("y", T("m", "dense", FALSE)), One("x", T("s", "sparse", FALSE)) >>,
   << E("rerank", <<Text("x", <<>>)>>, T("m", "none", FALSE), <<2>>, None2, <<>>, <<2>>),
      Hybrid("y", None2) >>,
   \* a CTE and a prefetch within a prefetch
   << [One("x", T("d", "none", FALSE)) EXCEPT !.prefetch = <<3, 2>>],
      [One("y", T("d", "none", FALSE)) EXCEPT !.ctes = <<5>>, !.prefetch = <<4>>],
      Hybrid("z", None2), One("v", T("s", "sparse", FALSE)), One("w", T("s", "none", FALSE)) >>,
   \* deeper than the walks descend
   << Fuse(<<>>, <<2>>), Fuse(<<>>, <<3>>), Fuse(<<>>, <<4>>), One("x", T("s", "sparse", FALSE)) >>,
   << Fuse(<<>>, <<2>>), Fuse(<<>>, <<3>>), Fuse(<<>>, <<4>>), One("x", <<>>) >> }
=============================================================================
