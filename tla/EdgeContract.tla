---------------------------- MODULE EdgeContract ----------------------------
(***************************************************************************)
(* What the embedded backend promises of one collection, whoever calls it  *)
(* at the same time: the collection exists or it does not, and every       *)
(* answer tells the truth about it at one moment of its call.              *)
(***************************************************************************)
CONSTANT Calls

VARIABLES kind,   \* what each call asks for, once it has been made
          owner,  \* whose collection it is: the call that created it, "old" or "none"
          answer  \* what each call has been told

vars == <<kind, owner, answer>>

Exists == owner # "none"

Init ==
  /\ kind = [c \in Calls |-> "none"]
  /\ owner \in {"old", "none"}
  /\ answer = [c \in Calls |-> "open"]

Ask(c) ==
  /\ kind[c] = "none"
  /\ \E k \in {"open", "create", "delete", "close"} : kind' = [kind EXCEPT ![c] = k]
  /\ UNCHANGED <<owner, answer>>

Tell(c, what) == answer[c] = "open" /\ answer' = [answer EXCEPT ![c] = what]

\* A create brings the collection into being, even when its caller is told of
\* an error then or has been told earlier.
Make(c) ==
  /\ kind[c] = "create" /\ answer[c] # "ok" /\ ~Exists
  /\ owner' = c
  /\ answer' = answer \/ Tell(c, "error")
  /\ kind' = kind

Open(c) ==
  /\ kind[c] = "open"
  /\ Tell(c, IF Exists THEN "ok" ELSE "missing")
  /\ UNCHANGED <<kind, owner>>

Create(c) ==
  /\ kind[c] = "create" /\ Exists
  /\ Tell(c, "exists") \/ (owner = c /\ Tell(c, "ok"))
  /\ UNCHANGED <<kind, owner>>

Delete(c) ==
  /\ kind[c] = "delete"
  /\ IF Exists THEN Tell(c, "ok") \/ Tell(c, "error") ELSE Tell(c, "missing")
  /\ owner' = "none"
  /\ kind' = kind

Close(c) ==
  /\ kind[c] = "close"
  /\ Tell(c, "ok")
  /\ UNCHANGED <<kind, owner>>

Fail(c) ==
  /\ Tell(c, "error") \/ Tell(c, "cancelled")
  /\ UNCHANGED <<kind, owner>>

Next ==
  \E c \in Calls :
    Ask(c) \/ Make(c) \/ Open(c) \/ Create(c) \/ Delete(c) \/ Close(c) \/ Fail(c)

Spec == Init /\ [][Next]_vars
=============================================================================
