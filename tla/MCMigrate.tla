----------------------------- MODULE MCMigrate -----------------------------
(***************************************************************************)
(* Small instances of Migrate for TLC.                                     *)
(***************************************************************************)
EXTENDS MigrateInv

CONSTANTS k1, k2

AllPoints == Points
NoPoints  == {}
AllPlain  == [p \in Points |-> "unsharded"]

\* The command with --no-fast-bulk, verification, cutover and source drop.
Plain == [restart |-> FALSE, resume |-> FALSE, recreate |-> FALSE, fast |-> FALSE,
          verify |-> TRUE, cutover |-> TRUE, drop |-> TRUE]

\* --no-verify, a restart onto a re-created target, --resume without --cutover.
SlowOptions ==
  {Plain,
   [Plain EXCEPT !.verify = FALSE],
   [Plain EXCEPT !.drop = FALSE, !.restart = TRUE, !.recreate = TRUE],
   [Plain EXCEPT !.cutover = FALSE, !.drop = FALSE, !.resume = TRUE]}

\* Fast bulk, which is the default.
Fast == [Plain EXCEPT !.fast = TRUE]

FastOptions == {Fast, [Fast EXCEPT !.drop = FALSE, !.restart = TRUE, !.recreate = TRUE]}

\* Fast bulk, and --no-fast-bulk --no-verify onto a re-created target, which
\* --no-fast-bulk --resume goes on with.
MixedOptions ==
  FastOptions \cup
    {[Plain EXCEPT !.verify = FALSE, !.drop = FALSE, !.restart = TRUE, !.recreate = TRUE],
     [Plain EXCEPT !.resume = TRUE]}

\* A late point on either side of those the source starts with, two of which the
\* target holds already.
MiddleInitial == 2..5
MiddleOwn     == {3, 4}
AroundLate    == {1, 6}

\* --shard-key-field: k2 and an unroutable point appear after the first run began;
\* the last point is never the source's.
ByTenant ==
  <<k1, "keyless", k1, "collision", k2, "unroutable", k1>>

TenantInitial == 1..4
TenantLate    == {5, 6}
=============================================================================
