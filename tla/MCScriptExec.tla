---------------------------- MODULE MCScriptExec ----------------------------
(***************************************************************************)
(* Small instances of ScriptExec for TLC.                                  *)
(***************************************************************************)
EXTENDS ScriptExec

Op(kind, id, val) == [kind |-> kind, id |-> id, val |-> val]

Stmt(class, op) == [class |-> class, ops |-> <<op>>, bad |-> "no"]

Put       == Stmt("waited", Op("put", "a", "one"))
Assign    == Stmt("waited", Op("assign", "a", "one"))
Delete    == Stmt("waited", Op("delete", "a", "one"))
Insert    == Stmt("waited", Op("insert", "a", "two"))
Purge     == Stmt("waited", Op("purge", "a", "one"))
Quick     == Stmt("unwaited", Op("put", "a", "two"))
Implicit  == Stmt("implicit", Op("put", "b", "two"))
Query     == Stmt("query", Op("read", "a", "one"))
Ddl       == Stmt("other", Op("read", "b", "one"))
Unbound   == [Put EXCEPT !.bad = "bind"]
Unplanned == [Put EXCEPT !.bad = "plan"]
Block     == [Put EXCEPT !.class = "block",
                         !.ops = <<Op("put", "a", "two"), Op("insert", "b", "one")>>]

\* Every script of three statements.
Triples(set) == [1..3 -> set]

\* Batches of every kind; barriers between them; writes to one point.
ManyScripts ==
  Triples({Put, Insert, Query, Unbound, Block})
    \cup Triples({Quick, Implicit, Put, Unplanned, Ddl})
    \cup Triples({Put, Assign, Delete})
    \cup Triples({Put, Quick, Purge})
=============================================================================
