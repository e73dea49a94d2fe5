------------------------------- MODULE MCDump -------------------------------
(***************************************************************************)
(* Small instances of Dump for TLC.                                        *)
(***************************************************************************)
EXTENDS Dump
=============================================================================
