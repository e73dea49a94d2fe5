-------------------------- MODULE MigrateContract --------------------------
(***************************************************************************)
(* What a migration promises, whatever its process does: the points it is  *)
(* to copy only ever travel from the source to the target, the alias is    *)
(* swapped to a complete target, the source is dropped only after that,    *)
(* and the target is emptied only while the source still holds everything. *)
(***************************************************************************)
CONSTANT Wanted     \* the points to copy

VARIABLES source,   \* the wanted points the source holds
          target,   \* the wanted points the target holds
          swapped   \* the alias points at the target

vars == <<source, target, swapped>>

Init == source = Wanted /\ target \subseteq Wanted /\ swapped = FALSE

Copy ==
  /\ \E pts \in SUBSET source : target' = target \cup pts
  /\ UNCHANGED <<source, swapped>>

Empty ==
  /\ source = Wanted
  /\ target' = {}
  /\ swapped' = FALSE
  /\ UNCHANGED source

Swap ==
  /\ target = Wanted
  /\ swapped' = TRUE
  /\ UNCHANGED <<source, target>>

Drop ==
  /\ swapped /\ target = Wanted
  /\ source' = {}
  /\ UNCHANGED <<target, swapped>>

Next == Copy \/ Empty \/ Swap \/ Drop

Spec == Init /\ [][Next]_vars
=============================================================================
