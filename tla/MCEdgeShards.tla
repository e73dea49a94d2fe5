---------------------------- MODULE MCEdgeShards ----------------------------
(***************************************************************************)
(* Small instances of EdgeShards for TLC.                                  *)
(***************************************************************************)
EXTENDS EdgeShards
=============================================================================
