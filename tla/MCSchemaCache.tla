--------------------------- MODULE MCSchemaCache ---------------------------
(***************************************************************************)
(* Small instances of SchemaCache for TLC.                                 *)
(***************************************************************************)
EXTENDS SchemaCache, TLC

CONSTANTS c1, c2

\* Two tasks that share the work: both go by the cache and both change the schema;
\* one works with templates, the other creates and drops the collection.
Shared ==
    (c1 :> {"query", "prepare", "many", "alter"}) @@
    (c2 :> {"query", "unnamed", "embed", "create", "drop"})

\* Both read, drop and create.
Readers == [c \in Calls |-> {"query", "drop", "create"}]
=============================================================================
