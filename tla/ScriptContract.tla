--------------------------- MODULE ScriptContract ---------------------------
(***************************************************************************)
(* What executing a script promises about its operations, however they are *)
(* grouped into batches, lost or sent again: they are answered in script   *)
(* order, none overtakes an earlier one that is still undecided, only an   *)
(* operation the server has applied is answered ok, and a conditional one  *)
(* is never applied twice.                                                 *)
(***************************************************************************)
EXTENDS Integers, Sequences, SequencesExt

VARIABLES earlier,     \* for each operation, those before it; never changes
          conditional, \* those that are conditional; never changes
          answer,      \* what the caller is told of each operation
          log          \* the operations the server applied, in order

vars == <<earlier, conditional, answer, log>>

Operations == DOMAIN earlier

Applied(x) == x \in ToSet(log)

Init ==
  /\ answer = [x \in Operations |-> "open"]
  /\ log = <<>>

\* The server applies an operation: a conditional one at most once, and an
\* unanswered one when no operation before it is undecided and unapplied.
Apply(x) ==
  /\ ~(x \in conditional /\ Applied(x))
  /\ answer[x] = "open" => \A y \in earlier[x] : answer[y] # "open" \/ Applied(y)
  /\ log' = Append(log, x)
  /\ UNCHANGED <<earlier, conditional, answer>>

\* The next operations are answered, several at a time for a batch.
Answer(last) ==
  /\ answer[last] = "open"
  /\ answer' \in [Operations -> {"open", "ok", "failed"}]
  /\ \A x \in Operations :
       /\ answer[x] # "open" => answer'[x] = answer[x]
       /\ answer'[x] # "open" <=> x \in earlier[last] \cup {last}
       /\ answer[x] = "open" /\ answer'[x] = "ok" => Applied(x)
  /\ UNCHANGED <<earlier, conditional, log>>

Next == \E x \in Operations : Apply(x) \/ Answer(x)

Spec == Init /\ [][Next]_vars
=============================================================================
