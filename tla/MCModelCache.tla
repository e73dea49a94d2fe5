---------------------------- MODULE MCModelCache ----------------------------
(***************************************************************************)
(* Three hosts and two models: a dense one, and a sparse one that only     *)
(* some hosts configure after it.                                          *)
(***************************************************************************)
EXTENDS ModelCache

CONSTANTS dense, sparse

SmallConfigs == {<<dense>>, <<dense, sparse>>}
=============================================================================
